---------------------------- MODULE Spec2Model ----------------------------
(***************************************************************************)
(* State-machine model of the Sound-Explores browser client:               *)
(*   - SoundList.jsx   the sound list: query effect, batched loading of    *)
(*                     clip durations, search, selection, playback         *)
(*   - SignUp.jsx      the sign-up form (both versions in the sources)     *)
(*   - useConnections  the connection queries and mutations                *)
(*   - SideBar.jsx     logout                                              *)
(* One action is one JavaScript task: an event handler, a timer callback   *)
(* or a promise continuation, run to completion together with the React    *)
(* effects of the render it causes.                                        *)
(* Text is modelled as sequences of one-character strings.                 *)
(***************************************************************************)
EXTENDS Integers, Sequences, FiniteSets, TLC

(***************************************************************************)
(* Bounds of the model.                                                    *)
(***************************************************************************)
\* LoadSpec: loadAudioDurations runs that are under way at the same time
MaxRuns == 2

(***************************************************************************)
(* Program constants.                                                      *)
(***************************************************************************)
BATCH_SIZE == 5
MinPasswordLen == 6
MinNameLen == 2

VARIABLES
    \* ---- environment of the sound list
    server,             \* the sounds the backend holds
    isAdmin,            \* user?.role === "ADMIN"
    isSubscribed,       \* user?.isSubscribed || false
    \* ---- SoundList component state
    sounds, filteredSounds, searchTerm, isLoading, currentlyPlayingId,
    selectedSounds, currentPage, totalPages, audioRef,
    \* ---- useSounds query, as the component sees it
    soundsData, qStatus,
    \* ---- asynchronous work started by the component
    runs,               \* the loadAudioDurations runs under way
    audios,             \* the audio elements whose callbacks may still run
    downloads,          \* downloadSound calls waiting at an await
    \* ---- useConnections hooks and SideBar
    queries, mutations, cacheStale, logout,
    \* ---- SignUp form
    formVariant, formErrors, signUpCall,
    \* ---- SoundList: delete modal, sharing and sending
    isDeleteModalOpen, isShareModalOpen, shareData,
    canShare,           \* useNativeShare().canShare
    shares,             \* navigator.share calls waiting at the await
    sends,              \* sendSoundMessage mutations under way
    friendListData, isFriendListLoading,    \* useFriendList()
    \* ---- SideBar: props and state
    activeView,         \* the activeView prop
    onClose,            \* whether the onClose prop is passed
    activeButton,
    \* ---- what the last task showed or sent: toasts, requests, files
    out

userVars  == <<server, isAdmin, isSubscribed>>
listVars  == <<sounds, filteredSounds, searchTerm, isLoading,
               currentlyPlayingId, selectedSounds, currentPage, totalPages,
               audioRef>>
queryVars == <<soundsData, qStatus>>
asyncVars == <<runs, audios>>
netVars   == <<queries, mutations, cacheStale, logout, downloads>>
formVars  == <<formVariant, formErrors, signUpCall>>
shareVars == <<isDeleteModalOpen, isShareModalOpen, shareData, canShare,
               shares, sends, friendListData, isFriendListLoading>>
sideVars  == <<activeView, onClose, activeButton>>
obsVars   == <<out>>
vars == <<userVars, listVars, queryVars, asyncVars, netVars, formVars,
         shareVars, sideVars, obsVars>>

(***************************************************************************)
(* Text helpers (String.prototype methods used by the sources).            *)
(***************************************************************************)
\* null, where the other values are positive numbers (ids, indices)
Null == 0
\* undefined data of a query; data d is held as <<d>>
NoData == <<>>

Range(s) == {s[k] : k \in DOMAIN s}

toLowerCaseChar(c) ==
    CASE c = "A" -> "a"
      [] c = "B" -> "b"
      [] c = "C" -> "c"
      [] c = "D" -> "d"
      [] OTHER -> c

toLowerCase(s) == [k \in DOMAIN s |-> toLowerCaseChar(s[k])]

\* s.includes(t)
includes(s, t) ==
    \E k \in 0..(Len(s) - Len(t)) : SubSeq(s, k + 1, k + Len(t)) = t

IsSpace(c) == c = " "

RECURSIVE trimStart(_)
trimStart(s) ==
    IF s # <<>> /\ IsSpace(Head(s)) THEN trimStart(Tail(s)) ELSE s

RECURSIVE trimEnd(_)
trimEnd(s) ==
    IF s # <<>> /\ IsSpace(s[Len(s)])
    THEN trimEnd(SubSeq(s, 1, Len(s) - 1)) ELSE s

trim(s) == trimEnd(trimStart(s))

Digit(d) ==
    CASE d = 0 -> "0" [] d = 1 -> "1" [] d = 2 -> "2" [] d = 3 -> "3"
      [] d = 4 -> "4" [] d = 5 -> "5" [] d = 6 -> "6" [] d = 7 -> "7"
      [] d = 8 -> "8" [] d = 9 -> "9"

\* Number.prototype.toString of a non-negative integer
RECURSIVE toString(_)
toString(n) ==
    IF n < 10 THEN <<Digit(n)>> ELSE toString(n \div 10) \o <<Digit(n % 10)>>

RECURSIVE padStart(_, _, _)
padStart(s, width, c) ==
    IF Len(s) >= width THEN s ELSE padStart(<<c>> \o s, width, c)

formatDurationUnpadded(seconds) ==
    toString(seconds \div 60) \o <<":">> \o toString(seconds % 60)

\* formatDuration(seconds), seconds a non-negative whole number
formatDuration(seconds) ==
    LET minutes == seconds \div 60
        remainingSeconds == seconds % 60
    IN padStart(toString(minutes), 2, "0") \o <<":">> \o
       padStart(toString(remainingSeconds), 2, "0")

ZeroDuration == <<"0", "0", ":", "0", "0">>

(***************************************************************************)
(* The backend's sounds.  secs is the clip length the browser reads from   *)
(* the audio file's metadata (audio.duration).                             *)
(***************************************************************************)
ServerSound(id, title, premium, secs) ==
    [_id |-> id, title |-> title, isPremium |-> premium,
     link |-> <<"/">> \o toString(id), secs |-> secs]

SmallCatalogue ==
    << ServerSound(1, <<"A", "b">>, FALSE, 75),
       ServerSound(2, <<"c", "d">>, TRUE, 5) >>

\* more sounds than one batch holds
BigCatalogue ==
    << ServerSound(1, <<"A", "b">>, FALSE, 75),
       ServerSound(2, <<"c", "d">>, TRUE, 0),
       ServerSound(3, <<"c">>, FALSE, 0),
       ServerSound(4, <<"c">>, FALSE, 0),
       ServerSound(5, <<"c">>, FALSE, 0),
       ServerSound(6, <<"d">>, FALSE, 600) >>

\* the search terms the user types
Terms == { <<>>, <<" ">>, <<"a", "B">> }

\* What GET /sound answers for a search term: the sounds whose title
\* contains the trimmed term, case-insensitively (all of them for a blank
\* term).
ServerMatches(term) ==
    LET t == toLowerCase(trim(term))
        Match(snd) == includes(toLowerCase(snd.title), t)
    IN SelectSeq(server, Match)

MatchResponse(term) ==
    [data |-> ServerMatches(term), meta |-> [totalPage |-> 1]]

ClipSeconds(id) ==
    LET k == CHOOSE k \in DOMAIN server : server[k]._id = id
    IN server[k].secs

(***************************************************************************)
(* Sound records of the component.  obj names the JavaScript object the    *)
(* record is: the object created for run obj by the soundsData effect      *)
(* (shared by the state arrays and by the run's soundsWithDurations), or 0 *)
(* for a copy made by an object spread.  description and category are      *)
(* carried by the code and never read; they are left out.                  *)
(***************************************************************************)
FormatSound(snd, r) ==
    [id |-> snd._id, name |-> snd.title, isPremium |-> snd.isPremium,
     link |-> snd.link, duration |-> ZeroDuration, selected |-> FALSE,
     isPlaying |-> FALSE, obj |-> r]

FormatSounds(data, r) == [k \in DOMAIN data |-> FormatSound(data[k], r)]

\* { ...sound, <changes> }: a new object
Spread(sound) == [sound EXCEPT !.obj = 0]

applySearch(term, soundList) ==
    LET Hit(sound) == includes(toLowerCase(sound.name), toLowerCase(term))
    IN IF term = <<>> \/ trim(term) = <<>>
       THEN soundList
       ELSE SelectSeq(soundList, Hit)

\* useEffect[sounds]: the ids of the selected sounds
SelectedIds(soundList) ==
    LET IsSelected(sound) == sound.selected
        sel == SelectSeq(soundList, IsSelected)
    IN [k \in DOMAIN sel |-> sel[k].id]

IdsOf(soundList) == [k \in DOMAIN soundList |-> soundList[k].id]

\* soundsWithDurations[index].duration = d, seen through every array that
\* holds the same object
AliasWrite(soundList, r, id, d) ==
    [k \in DOMAIN soundList |->
        IF soundList[k].obj = r /\ soundList[k].id = id
        THEN [soundList[k] EXCEPT !.duration = d]
        ELSE soundList[k]]

\* Runs and audio elements are named by tokens: the least positive number
\* not in use.  One whose callbacks can no longer run is dropped.
NewToken(f) ==
    CHOOSE t \in 1..(Cardinality(DOMAIN f) + 1) :
        t \notin DOMAIN f /\ \A u \in 1..(t - 1) : u \in DOMAIN f

Put(f, t, v) == [u \in DOMAIN f \cup {t} |-> IF u = t THEN v ELSE f[u]]

Drop(f, t) == [u \in DOMAIN f \ {t} |-> f[u]]

\* run r is over: its objects are shared with no soundsWithDurations any more
Retire(soundList, r) ==
    [k \in DOMAIN soundList |->
        IF soundList[k].obj = r THEN [soundList[k] EXCEPT !.obj = 0]
        ELSE soundList[k]]

RetireAudios(auds, r) ==
    [a \in DOMAIN auds |-> [auds[a] EXCEPT !.sounds = Retire(@, r)]]

AliasWriteAudios(r, id, d) ==
    [a \in DOMAIN audios |->
        [audios[a] EXCEPT !.sounds = AliasWrite(@, r, id, d)]]

(***************************************************************************)
(* loadAudioDurations.  A run is                                           *)
(*   arr        soundsWithDurations                                        *)
(*   i          the loop index (1-based: JavaScript's i + 1)               *)
(*   started    indices whose metadata load was started (new Audio())      *)
(*   timers     indices whose 5 s timeout is armed                         *)
(*   listeners  indices whose loadedmetadata/error listeners are attached  *)
(*   resolved   indices whose promise is resolved                          *)
(*   fired      per index, how many outcome handlers have run              *)
(*   done       the function has returned                                  *)
(***************************************************************************)
Min(a, b) == IF a <= b THEN a ELSE b

\* soundsWithDurations.slice(i, i + BATCH_SIZE), as indices
BatchOf(arr, i) == i .. Min(i + BATCH_SIZE - 1, Len(arr))

\* the negation of: sound.duration && sound.duration !== "00:00"
NeedsLoad(sound) == ~(sound.duration # <<>> /\ sound.duration # ZeroDuration)

NewRun(soundsList) ==
    [arr |-> soundsList, i |-> 1, started |-> {}, timers |-> {},
     listeners |-> {}, resolved |-> {},
     fired |-> [k \in DOMAIN soundsList |-> 0], done |-> FALSE]

\* The for loop from index i up to the await that blocks, or to the return.
RECURSIVE runLoop(_, _)
runLoop(run, i) ==
    IF i > Len(run.arr)
    THEN [run EXCEPT !.i = i, !.done = TRUE]
    ELSE LET batch == BatchOf(run.arr, i)
             load == {k \in batch : NeedsLoad(run.arr[k])}
             run1 == [run EXCEPT !.i = i,
                                 !.started = @ \cup load,
                                 !.timers = @ \cup load,
                                 !.listeners = @ \cup load,
                                 !.resolved = @ \cup (batch \ load)]
         IN IF load = {} THEN runLoop(run1, i + BATCH_SIZE) ELSE run1

loadAudioDurations(soundsList) == runLoop(NewRun(soundsList), 1)

\* a faulty await, as of Promise.race: some promise of the batch is resolved
BatchSettledAny(run) == BatchOf(run.arr, run.i) \cap run.resolved # {}
\* await Promise.all(promises): every promise of the batch is resolved
BatchSettled(run) == BatchOf(run.arr, run.i) \subseteq run.resolved

\* The rest of the task in which an outcome handler of run r wrote duration
\* d to the sound id and resolved its promise, leaving the run as run1: when
\* that settles the batch the continuation runs in the same task
\* (setSounds, setFilteredSounds, then the next batch or the return).
Settle(r, run1, id, d) ==
    LET settled == ~run1.done /\ BatchSettled(run1)
        run2 == IF settled THEN runLoop(run1, run1.i + BATCH_SIZE) ELSE run1
        over == run2.done /\ run2.timers = {} /\ run2.listeners = {}
        shown == IF settled THEN run1.arr ELSE AliasWrite(sounds, r, id, d)
        shownFiltered ==
            IF settled THEN run1.arr ELSE AliasWrite(filteredSounds, r, id, d)
        auds == AliasWriteAudios(r, id, d)
    IN /\ runs' = IF over THEN Drop(runs, r) ELSE Put(runs, r, run2)
       /\ sounds' = IF over THEN Retire(shown, r) ELSE shown
       /\ filteredSounds' = IF over THEN Retire(shownFiltered, r) ELSE shownFiltered
       /\ audios' = IF over THEN RetireAudios(auds, r) ELSE auds
       /\ selectedSounds' = IF settled THEN SelectedIds(run1.arr) ELSE selectedSounds
       /\ UNCHANGED <<searchTerm, isLoading, currentlyPlayingId, currentPage,
                      totalPages, audioRef>>
       /\ UNCHANGED <<sideVars, userVars, shareVars, queryVars, netVars, formVars>>

\* a faulty onLoaded that forgets clearTimeout
ClearedOnLoadedKeepTimer(run, k) ==
    [run EXCEPT !.listeners = @ \ {k}]
\* clearTimeout + both removeEventListener calls of onLoaded
ClearedOnLoaded(run, k) ==
    [run EXCEPT !.timers = @ \ {k}, !.listeners = @ \ {k}]

\* the loadedmetadata listener
onLoaded(r, k) ==
    /\ r \in DOMAIN runs
    /\ k \in runs[r].listeners
    /\ LET run == runs[r]
           id == run.arr[k].id
           duration == formatDuration(ClipSeconds(id))
           run1 == [ClearedOnLoaded(run, k) EXCEPT
                        !.arr[k].duration = duration,
                        !.fired[k] = @ + 1,
                        !.resolved = @ \cup {k}]
       IN /\ Settle(r, run1, id, duration)
          /\ out' = <<>>

\* the error listener
onError(r, k) ==
    /\ r \in DOMAIN runs
    /\ k \in runs[r].listeners
    /\ LET run == runs[r]
           id == run.arr[k].id
           run1 == [run EXCEPT !.timers = @ \ {k},
                               !.arr[k].duration = ZeroDuration,
                               !.listeners = @ \ {k},
                               !.fired[k] = @ + 1,
                               !.resolved = @ \cup {k}]
       IN /\ Settle(r, run1, id, ZeroDuration)
          /\ out' = <<>>

\* a faulty setTimeout callback that forgets resolve()
ResolvedOnTimeoutNot(run, k) == run
\* resolve() of the setTimeout callback
ResolvedOnTimeout(run, k) == [run EXCEPT !.resolved = @ \cup {k}]

\* the setTimeout callback
onTimeout(r, k) ==
    /\ r \in DOMAIN runs
    /\ k \in runs[r].timers
    /\ LET run == runs[r]
           id == run.arr[k].id
           run1 == ResolvedOnTimeout(
                       [run EXCEPT !.timers = @ \ {k},
                                   !.listeners = @ \ {k},
                                   !.arr[k].duration = ZeroDuration,
                                   !.fired[k] = @ + 1], k)
       IN /\ Settle(r, run1, id, ZeroDuration)
          /\ out' = <<>>

(***************************************************************************)
(* useSounds({searchTerm, page, limit}).  The hook is not among the        *)
(* sources; the component reads its data, isLoading and isError.           *)
(***************************************************************************)
isFetchingData == qStatus = "loading"
isError == qStatus = "error"

\* useEffect[soundsData]
soundsDataEffect(resp) ==
    LET r == NewToken(runs)
        formattedSounds == FormatSounds(resp.data, r)
        run == loadAudioDurations(formattedSounds)
    IN /\ sounds' = formattedSounds
       /\ filteredSounds' = formattedSounds
       /\ runs' = IF run.done THEN runs ELSE Put(runs, r, run)
       /\ isLoading' = FALSE
       /\ totalPages' = resp.meta.totalPage
       /\ selectedSounds' = SelectedIds(formattedSounds)
       /\ UNCHANGED <<searchTerm, currentlyPlayingId, currentPage, audioRef,
                      audios>>

\* the request of the current query key is answered
QuerySuccess(resp) ==
    /\ qStatus = "loading"
    /\ soundsData' = <<resp>>
    /\ qStatus' = "success"
    /\ soundsDataEffect(resp)
    /\ out' = <<>>
    /\ UNCHANGED <<sideVars, userVars, shareVars, netVars, formVars>>

\* the request of the current query key fails
QueryError ==
    /\ qStatus = "loading"
    /\ qStatus' = "error"
    /\ out' = <<>>
    /\ UNCHANGED <<soundsData, sideVars, userVars, shareVars, listVars, asyncVars, netVars, formVars>>

\* onChange of the search input
handleSearch(term) ==
    /\ term # searchTerm
    /\ searchTerm' = term
    /\ filteredSounds' = applySearch(term, sounds)
    \* the query key changes: useSounds starts the request of the new key
    /\ soundsData' = NoData
    /\ qStatus' = "loading"
    /\ out' = <<>>
    /\ UNCHANGED <<sounds, isLoading, currentlyPlayingId, selectedSounds,
                   currentPage, totalPages, audioRef>>
    /\ UNCHANGED <<sideVars, userVars, shareVars, asyncVars, netVars, formVars>>

(***************************************************************************)
(* Initial states.                                                         *)
(***************************************************************************)
ListInit ==
    /\ sounds = <<>>
    /\ filteredSounds = <<>>
    /\ searchTerm = <<>>
    /\ isLoading = TRUE
    /\ currentlyPlayingId = Null
    /\ selectedSounds = <<>>
    /\ currentPage = 1
    /\ totalPages = 1
    /\ audioRef = Null
    /\ soundsData = NoData
    /\ qStatus = "loading"
    /\ runs = <<>>
    /\ audios = <<>>

\* the connection lists (useGetAllUsers, useFriendList, useSentRequests,
\* useReceivedRequests) and the connection mutations
QueryNames == {"users", "friends", "sent", "received"}
MutationNames == {"send", "accept", "reject", "cancel", "remove"}

\* The filters of a list hook: search, page and limit, each absent (<<>>)
\* or <<value>>.
NoFilters == [search |-> <<>>, page |-> <<>>, limit |-> <<>>]

\* CONNECTION_KEYS
CONNECTION_KEYS_all == <<"connections">>
CONNECTION_KEYS_lists == CONNECTION_KEYS_all \o <<"list">>
CONNECTION_KEYS_friendList(filters) ==
    CONNECTION_KEYS_lists \o <<"friends", [filters |-> filters]>>
CONNECTION_KEYS_sentRequests(filters) ==
    CONNECTION_KEYS_lists \o <<"sent", [filters |-> filters]>>
CONNECTION_KEYS_receivedRequests(filters) ==
    CONNECTION_KEYS_lists \o <<"received", [filters |-> filters]>>
CONNECTION_KEYS_users(filters) ==
    CONNECTION_KEYS_all \o <<"users", [filters |-> filters]>>

\* the queryKey of list hook q called with these filters
QueryKey(q, filters) ==
    CASE q = "users" -> CONNECTION_KEYS_users(filters)
      [] q = "friends" -> CONNECTION_KEYS_friendList(filters)
      [] q = "sent" -> CONNECTION_KEYS_sentRequests(filters)
      [] q = "received" -> CONNECTION_KEYS_receivedRequests(filters)

\* the list hook a cache entry belongs to
KindOf(key) == key[Len(key) - 1]

\* the cache holds one entry per queryKey: each list hook is mounted
\* without filters and is fetching
NetInit ==
    /\ queries = [key \in {QueryKey(q, NoFilters) : q \in QueryNames} |->
                     "fetching"]
    /\ mutations = [m \in MutationNames |-> "idle"]
    /\ cacheStale = {}
    /\ logout = "idle"
    /\ downloads = <<>>

\* the fields of the sign-up form (the full form; the simplified form has
\* the last three)
AllFields == {"fullName", "phone", "email", "password", "agreeToTerms"}
NoMessage == <<>>
NoErrors == [f \in AllFields |-> NoMessage]

\* no sign-up form is being filled
NoForm ==
    /\ formVariant = "full"
    /\ formErrors = NoErrors
    /\ signUpCall = <<>>

\* no modal is open, nothing is being shared or sent, and the friend list
\* is still being fetched
NoModal ==
    /\ isDeleteModalOpen = FALSE
    /\ isShareModalOpen = FALSE
    /\ shareData = NoData
    /\ shares = <<>>
    /\ sends = <<>>

FriendsLoading ==
    /\ friendListData = NoData
    /\ isFriendListLoading = TRUE

NoShare == NoModal /\ FriendsLoading /\ canShare = FALSE

\* SideBar as it is mounted: useState(activeView === "friends" ? 2 : 1)
ButtonForSounds(view) == 1
ButtonFor(view) == IF view = "friends" THEN 2 ELSE 1
SideBarMount(view, close) ==
    /\ activeView = view
    /\ onClose = close
    /\ activeButton = ButtonFor(view)
NoSideBar == SideBarMount("sounds", FALSE)

ObsInit == out = <<>>

(***************************************************************************)
(* LoadSpec: the list filled from a backend with more sounds than one      *)
(* batch; responses, searches and the duration loading.                    *)
(***************************************************************************)
LoadTerms == { <<>>, <<"a", "B">> }

LoadInit ==
    /\ server = BigCatalogue
    /\ isAdmin = FALSE
    /\ isSubscribed = FALSE
    /\ ListInit /\ NetInit /\ NoForm /\ NoShare /\ NoSideBar /\ ObsInit

LoadNext ==
    \/ QuerySuccess(MatchResponse(searchTerm)) /\ Cardinality(DOMAIN runs') <= MaxRuns
    \/ QueryError
    \/ \E term \in LoadTerms : handleSearch(term)
    \/ \E r \in 1..MaxRuns, k \in 1..Len(BigCatalogue) : onLoaded(r, k)
    \/ \E r \in 1..MaxRuns, k \in 1..Len(BigCatalogue) : onError(r, k)
    \/ \E r \in 1..MaxRuns, k \in 1..Len(BigCatalogue) : onTimeout(r, k)

LoadSpec == LoadInit /\ [][LoadNext]_vars

\* Timers fire: while a run has an armed setTimeout callback, the event
\* loop runs one of them.  No audio element is required to emit
\* loadedmetadata or error.
TimersFire ==
    \A r \in 1..MaxRuns :
        WF_vars(\E k \in 1..Len(BigCatalogue) : onTimeout(r, k))

FairLoadSpec == LoadSpec /\ TimersFire

(***************************************************************************)
(* Properties of the duration loading.                                     *)
(***************************************************************************)
\* metadata loads of a run that are in flight: started and not resolved
InFlight(run) == run.started \ run.resolved

RECURSIVE SumInFlight(_)
SumInFlight(rs) ==
    IF rs = {} THEN 0
    ELSE LET r == CHOOSE r \in rs : TRUE
         IN Cardinality(InFlight(runs[r])) + SumInFlight(rs \ {r})

ResponseIds(resp) == [k \in DOMAIN resp.data |-> resp.data[k]._id]

\* C1 (as stated): last network response wins.  While the component holds
\* a response of the current query, the list in `sounds` and in
\* `filteredSounds` is made of that response's records, whatever callbacks
\* of earlier loadAudioDurations runs have run since it was applied.
C1_LastResponseWins ==
    soundsData # NoData =>
        /\ IdsOf(sounds) = ResponseIds(soundsData[1])
        /\ IdsOf(filteredSounds) = ResponseIds(soundsData[1])

\* C1, the state that refutes it: the response held is the one-sound answer
\* to the search, and the list is the six sounds of the response before it.
C1_StaleListShown ==
    /\ soundsData # NoData
    /\ Len(soundsData[1].data) = 1
    /\ Len(sounds) = Len(BigCatalogue)

\* C2 (as stated): at any time at most 5 metadata loads are in flight.
C2_AtMostFiveInFlight == SumInFlight(DOMAIN runs) <= BATCH_SIZE

\* C2 (amended): within each loadAudioDurations run at most 5 metadata
\* loads are in flight, they all belong to the batch the run is waiting
\* for, and no item of a later batch is started before every item of the
\* earlier batches has resolved.
C2_BatchesPerRun ==
    \A r \in DOMAIN runs :
        LET run == runs[r] IN
        /\ Cardinality(InFlight(run)) <= BATCH_SIZE
        /\ InFlight(run) \subseteq BatchOf(run.arr, run.i)
        /\ run.started \subseteq 1..(run.i + BATCH_SIZE - 1)
        /\ \A k \in DOMAIN run.arr : k < run.i => k \in run.resolved

\* C2, its case: two runs are under way, one of them waiting for its second
\* batch while the other has a full batch in flight.
C2_SecondBatchInFlight ==
    \E r, q \in DOMAIN runs :
        /\ r # q
        /\ runs[r].i > BATCH_SIZE
        /\ InFlight(runs[r]) # {}
        /\ Cardinality(InFlight(runs[q])) = BATCH_SIZE

\* C3: for every item whose metadata load was started, at most one of the
\* three outcome handlers (loadedmetadata, error, timeout) has run; once
\* one has run the item is resolved, its timer is cleared and its listeners
\* are removed, so no other outcome can write its duration or resolve it
\* again; and its duration is the formatted clip length or "00:00".
C3_OneOutcome ==
    \A r \in DOMAIN runs :
        LET run == runs[r] IN
        \A k \in run.started :
            /\ run.fired[k] <= 1
            /\ (run.fired[k] = 1) = (k \in run.resolved)
            /\ k \in run.resolved => k \notin run.timers \cup run.listeners
            /\ k \notin run.resolved => k \in run.timers \cap run.listeners
            /\ k \in run.resolved =>
                   run.arr[k].duration \in
                       {formatDuration(ClipSeconds(run.arr[k].id)), ZeroDuration}
            /\ k \notin run.resolved => run.arr[k].duration = ZeroDuration

\* C3, its case: two runs are under way; in one the first item has got its
\* clip length from loadedmetadata, in the other the first item has resolved
\* with "00:00" by error or timeout.
C3_OutcomesFired ==
    \E r, q \in DOMAIN runs :
        /\ 1 \in runs[r].started /\ 1 \in runs[q].started
        /\ runs[r].fired[1] = 1
        /\ runs[r].arr[1].duration = formatDuration(ClipSeconds(runs[r].arr[1].id))
        /\ runs[q].fired[1] = 1
        /\ runs[q].arr[1].duration = ZeroDuration
        /\ ClipSeconds(runs[q].arr[1].id) # 0

\* C4: when timers fire, every loadAudioDurations run under way eventually
\* returns, whether or not any audio element emits loadedmetadata or error:
\* no run stays under way for ever (runs are named by the tokens 1..MaxRuns,
\* and a token is free again and again).
C4_RunTerminates ==
    \A r \in 1..MaxRuns : []<>(r \notin DOMAIN runs)

\* C4, its case: a run over the six sounds has returned and its last list
\* is shown, no clip length having been read for the sounds 1 and 6: their
\* items resolved by error or timeout.
C4_ReturnedWithoutMetadata ==
    /\ runs = <<>>
    /\ Len(sounds) = Len(BigCatalogue)
    /\ sounds[1].duration = ZeroDuration
    /\ sounds[Len(BigCatalogue)].duration = ZeroDuration

(***************************************************************************)
(* Rows of the list.  The rows are rendered from filteredSounds, and only  *)
(* when the list is neither loading nor in error.                          *)
(***************************************************************************)
ListShown == ~(isLoading \/ isFetchingData) /\ ~isError /\ Len(filteredSounds) > 0

RowShown(id) == ListShown /\ \E k \in DOMAIN filteredSounds : filteredSounds[k].id = id

Has(soundList, id) == \E k \in DOMAIN soundList : soundList[k].id = id

\* soundList.find((sound) => sound.id === id), when Has(soundList, id)
Find(soundList, id) ==
    LET k == CHOOSE k \in DOMAIN soundList :
                 /\ soundList[k].id = id
                 /\ \A j \in 1..(k - 1) : soundList[j].id # id
    IN soundList[k]

ToastError(text) == [fx |-> "toast.error", msg |-> text]
ToastSuccess(text) == [fx |-> "toast.success", msg |-> text]

(***************************************************************************)
(* toggleSelect                                                            *)
(***************************************************************************)
MultiSelectForAll == TRUE

\* if (isAdmin): several sounds may be selected
MultiSelect == isAdmin

toggleSelect(id) ==
    /\ RowShown(id)
    /\ LET updatedSounds ==
               IF MultiSelect
               THEN [k \in DOMAIN sounds |->
                        IF sounds[k].id = id
                        THEN [Spread(sounds[k]) EXCEPT !.selected = ~@]
                        ELSE sounds[k]]
               ELSE IF Has(sounds, id) /\ Find(sounds, id).selected
               THEN [k \in DOMAIN sounds |->
                        IF sounds[k].id = id
                        THEN [Spread(sounds[k]) EXCEPT !.selected = FALSE]
                        ELSE sounds[k]]
               ELSE [k \in DOMAIN sounds |->
                        IF sounds[k].id = id
                        THEN [Spread(sounds[k]) EXCEPT !.selected = TRUE]
                        ELSE [Spread(sounds[k]) EXCEPT !.selected = FALSE]]
       IN /\ sounds' = updatedSounds
          /\ filteredSounds' = applySearch(searchTerm, updatedSounds)
          /\ selectedSounds' = SelectedIds(updatedSounds)
    /\ out' = <<>>
    /\ UNCHANGED <<searchTerm, isLoading, currentlyPlayingId, currentPage,
                   totalPages, audioRef>>
    /\ UNCHANGED <<sideVars, userVars, shareVars, queryVars, asyncVars, netVars, formVars>>

(***************************************************************************)
(* Playback.  An audio element created by togglePlaySound is               *)
(*   id, src      the sound it plays                                       *)
(*   state        "starting"  play() called, its promise pending           *)
(*                "aborted"   paused while starting: the promise is        *)
(*                            rejected (AbortError), the catch not yet run *)
(*                "playing"   the play() promise is fulfilled              *)
(*   sounds, searchTerm   the values the catch and onended closures of     *)
(*                        this call captured                               *)
(* An element that is paused after it started, has failed or has ended     *)
(* runs no callback any more and is dropped.                               *)
(***************************************************************************)
\* HTMLMediaElement.pause() on the audio elements auds
pause(auds, a) ==
    CASE a \notin DOMAIN auds -> auds
      [] a \in DOMAIN auds /\ auds[a].state = "starting" ->
            [auds EXCEPT ![a].state = "aborted"]
      [] a \in DOMAIN auds /\ auds[a].state = "playing" -> Drop(auds, a)
      [] OTHER -> auds

PauseCurrentNot == audios

\* if (audioRef.current) { audioRef.current.pause(); ... }
PauseCurrent == IF audioRef # Null THEN pause(audios, audioRef) ELSE audios

AllStopped(soundList) ==
    [k \in DOMAIN soundList |-> [Spread(soundList[k]) EXCEPT !.isPlaying = FALSE]]

\* a faulty togglePlaySound without the premium check
PremiumBlockedNever(soundToPlay) == FALSE
\* soundToPlay.isPremium && !isSubscribed
PremiumBlocked(soundToPlay) == soundToPlay.isPremium /\ ~isSubscribed

PremiumToast ==
    ToastError(<<"This is a premium sound. Please upgrade your plan to play premium sounds!">>)

StartsPlayingKeep(sound, id) == sound.id = id \/ sound.isPlaying

\* the isPlaying flag togglePlaySound(id) gives a sound when it starts id
StartsPlaying(sound, id) == sound.id = id

togglePlaySound(id) ==
    /\ RowShown(id)
    /\ UNCHANGED <<searchTerm, isLoading, currentPage, totalPages>>
    /\ UNCHANGED <<sideVars, userVars, shareVars, queryVars, runs, netVars, formVars>>
    /\ IF ~Has(sounds, id)
       THEN /\ out' = <<>>
            /\ UNCHANGED <<sounds, filteredSounds, selectedSounds,
                           currentlyPlayingId, audioRef, audios>>
       ELSE LET soundToPlay == Find(sounds, id) IN
            IF PremiumBlocked(soundToPlay)
            THEN /\ out' = <<PremiumToast>>
                 /\ UNCHANGED <<sounds, filteredSounds, selectedSounds,
                                currentlyPlayingId, audioRef, audios>>
            ELSE IF soundToPlay.isPlaying
            THEN LET updatedSounds == AllStopped(sounds) IN
                 /\ audios' = PauseCurrent
                 /\ audioRef' = Null
                 /\ sounds' = updatedSounds
                 /\ filteredSounds' = applySearch(searchTerm, updatedSounds)
                 /\ selectedSounds' = SelectedIds(updatedSounds)
                 /\ currentlyPlayingId' = Null
                 /\ out' = <<>>
            ELSE LET updatedSounds ==
                         [k \in DOMAIN sounds |->
                             [Spread(sounds[k]) EXCEPT
                                 !.isPlaying = StartsPlaying(sounds[k], id)]]
                     audio == [id |-> id, src |-> soundToPlay.link,
                               state |-> "starting",
                               sounds |-> sounds, searchTerm |-> searchTerm]
                 IN
                 /\ audios' = Put(PauseCurrent, NewToken(PauseCurrent), audio)
                 /\ audioRef' = NewToken(PauseCurrent)
                 /\ sounds' = updatedSounds
                 /\ filteredSounds' = applySearch(searchTerm, updatedSounds)
                 /\ selectedSounds' = SelectedIds(updatedSounds)
                 /\ currentlyPlayingId' = id
                 /\ out' = <<>>

\* the play() promise of audio a is fulfilled: playback has started
PlayStarted(a) ==
    /\ a \in DOMAIN audios
    /\ audios[a].state = "starting"
    /\ audios' = [audios EXCEPT ![a].state = "playing"]
    /\ out' = <<>>
    /\ UNCHANGED <<runs, sideVars, userVars, shareVars, listVars, queryVars, netVars, formVars>>

\* The state the catch and onended callbacks of an audio set, from the
\* sounds and searchTerm their closure captured.
ResetFromClosure(a) ==
    LET resetSounds == AllStopped(audios[a].sounds) IN
    /\ sounds' = resetSounds
    /\ filteredSounds' = applySearch(audios[a].searchTerm, resetSounds)
    /\ selectedSounds' = SelectedIds(resetSounds)
    /\ currentlyPlayingId' = Null
    /\ audioRef' = Null
    /\ UNCHANGED <<searchTerm, isLoading, currentPage, totalPages>>
    /\ UNCHANGED <<runs, sideVars, userVars, shareVars, queryVars, netVars, formVars>>

\* audio.play().catch(...): the promise is rejected (the source cannot be
\* played, autoplay is refused, or a pause() interrupted the start)
playCatch(a) ==
    /\ a \in DOMAIN audios
    /\ audios[a].state \in {"starting", "aborted"}
    /\ ResetFromClosure(a)
    /\ audios' = Drop(audios, a)
    /\ out' = <<ToastError(<<"Failed to play audio">>)>>

\* audio.onended
onended(a) ==
    /\ a \in DOMAIN audios
    /\ audios[a].state = "playing"
    /\ ResetFromClosure(a)
    /\ audios' = Drop(audios, a)
    /\ out' = <<>>

(***************************************************************************)
(* Spec: the sound list over a backend with two sounds; one                *)
(* loadAudioDurations run and one audio element under way at a time.       *)
(***************************************************************************)
SoundIds == {SmallCatalogue[k]._id : k \in DOMAIN SmallCatalogue}

\* Spec: loadAudioDurations runs under way at the same time
ListRuns == 1
\* Spec: audio elements whose callbacks may still run
ListAudios == 1

Init ==
    /\ server = SmallCatalogue
    /\ isAdmin = FALSE
    /\ isSubscribed \in BOOLEAN
    /\ ListInit /\ NetInit /\ NoForm /\ NoShare /\ NoSideBar /\ ObsInit

Next ==
    \/ QuerySuccess(MatchResponse(searchTerm))
          /\ Cardinality(DOMAIN runs') <= ListRuns
    \/ QueryError
    \/ \E term \in Terms : handleSearch(term)
    \/ \E r \in 1..ListRuns, k \in 1..Len(SmallCatalogue) : onLoaded(r, k)
    \/ \E r \in 1..ListRuns, k \in 1..Len(SmallCatalogue) : onError(r, k)
    \/ \E r \in 1..ListRuns, k \in 1..Len(SmallCatalogue) : onTimeout(r, k)
    \/ \E id \in SoundIds : toggleSelect(id)
    \/ \E id \in SoundIds :
          togglePlaySound(id) /\ Cardinality(DOMAIN audios') <= ListAudios
    \/ \E a \in 1..ListAudios : PlayStarted(a)
    \/ \E a \in 1..ListAudios : playCatch(a)
    \/ \E a \in 1..ListAudios : onended(a)

Spec == Init /\ [][Next]_vars

\* C8 (as stated): in every state the displayed list is the substring
\* filter of the sound list: filteredSounds is the elements of sounds whose
\* name contains the search term case-insensitively, and all of sounds when
\* the term is empty or only whitespace.
C8_FilteredIsFilter == filteredSounds = applySearch(searchTerm, sounds)

\* C8, the state that refutes it: a non-blank term is in the search box and
\* the displayed list holds a sound whose name does not contain it.
C8_UnfilteredShown ==
    /\ trim(searchTerm) # <<>>
    /\ \E k \in DOMAIN filteredSounds :
           ~includes(toLowerCase(filteredSounds[k].name), toLowerCase(searchTerm))

(***************************************************************************)
(* PlaySpec: selection and playback on the list of the first response; the *)
(* search term is never changed, so the query is answered once.            *)
(***************************************************************************)
\* PlaySpec: audio elements whose callbacks may still run
PlayAudios == 1

PlayInit ==
    /\ server = SmallCatalogue
    /\ isAdmin = FALSE
    /\ isSubscribed \in BOOLEAN
    /\ ListInit /\ NetInit /\ NoForm /\ NoShare /\ NoSideBar /\ ObsInit

PlayNext ==
    \/ QuerySuccess(MatchResponse(searchTerm))
    \/ QueryError
    \/ \E k \in 1..Len(SmallCatalogue) : onLoaded(1, k)
    \/ \E k \in 1..Len(SmallCatalogue) : onError(1, k)
    \/ \E k \in 1..Len(SmallCatalogue) : onTimeout(1, k)
    \/ \E id \in SoundIds : toggleSelect(id)
    \/ \E id \in SoundIds :
          togglePlaySound(id) /\ Cardinality(DOMAIN audios') <= PlayAudios
    \/ \E a \in 1..PlayAudios : PlayStarted(a)
    \/ \E a \in 1..PlayAudios : playCatch(a)
    \/ \E a \in 1..PlayAudios : onended(a)

PlaySpec == PlayInit /\ [][PlayNext]_vars

\* the sound of the list an audio element plays is a premium sound
PlaysPremium(a) ==
    \E k \in DOMAIN server :
        server[k]._id = audios[a].id /\ server[k].isPremium

\* C9: a user who is not subscribed never starts playback of a premium
\* sound.  A togglePlaySound on a premium sound with isSubscribed false
\* creates no audio element, leaves sounds, currentlyPlayingId and the
\* current audio as they are and shows the error toast; and at no time does
\* an audio element of a premium sound exist, or is a premium sound the
\* one marked as playing, for such a user.
C9_PremiumNeverPlays ==
    /\ [](~isSubscribed =>
            /\ \A a \in DOMAIN audios : ~PlaysPremium(a)
            /\ \A k \in DOMAIN sounds :
                   sounds[k].isPremium =>
                       ~sounds[k].isPlaying /\ currentlyPlayingId # sounds[k].id)
    /\ [][\A id \in SoundIds :
             (/\ togglePlaySound(id)
              /\ Has(sounds, id)
              /\ Find(sounds, id).isPremium
              /\ ~isSubscribed)
             => /\ UNCHANGED <<sounds, filteredSounds, currentlyPlayingId,
                               audioRef, audios>>
                /\ out' = <<PremiumToast>>]_vars

\* C9, its case: the premium toast has just been shown to an unsubscribed
\* user while the other sound is playing, and that playback goes on.
C9_PremiumRefused ==
    /\ ~isSubscribed
    /\ out = <<PremiumToast>>
    /\ currentlyPlayingId = 1
    /\ audioRef \in DOMAIN audios
    /\ audios[audioRef].state = "playing"

(***************************************************************************)
(* The sign-up form.  SignUp.jsx is in the sources twice: the full form    *)
(* (fullName, phone, email, password, agreeToTerms) and a simplified form  *)
(* (email, password, agreeToTerms).  formVariant says which one is         *)
(* mounted.  handleSubmit(onSubmit) runs the zod schema through the        *)
(* resolver; react-hook-form shows the first message of each failing       *)
(* field and calls onSubmit only when no field fails.                      *)
(***************************************************************************)
FormFields(variant) ==
    IF variant = "full" THEN AllFields ELSE {"email", "password", "agreeToTerms"}

\* the position of the only "@" of s, or 0
AtSign(s) ==
    IF Cardinality({k \in DOMAIN s : s[k] = "@"}) = 1
    THEN CHOOSE k \in DOMAIN s : s[k] = "@"
    ELSE 0

\* z.string().email(): no whitespace, one "@" after a non-empty local part,
\* a domain of non-empty labels whose last has at least two characters
IsEmail(s) ==
    LET at == AtSign(s)
        dots == {k \in DOMAIN s : s[k] = "." /\ k > at}
    IN /\ \A k \in DOMAIN s : ~IsSpace(s[k])
       /\ at > 1
       /\ dots # {}
       /\ \A d \in dots : d > at + 1 /\ d < Len(s) /\ (d + 1) \notin dots
       /\ \A d \in dots : (\A e \in dots : e <= d) => Len(s) - d >= 2

\* val.replace(/\s+/g, "").toLowerCase()
NormalizeEmail(val) ==
    LET NotSpace(c) == ~IsSpace(c)
    IN toLowerCase(SelectSeq(val, NotSpace))

IsDigit(c) == c \in {"0", "1", "2", "3", "4", "5", "6", "7", "8", "9"}

\* isValidPhoneNumber of react-phone-number-input, for the numbers the
\* model types: "+", then 8 to 15 digits
isValidPhoneNumber(val) ==
    /\ Len(val) >= 9 /\ Len(val) <= 16
    /\ val[1] = "+"
    /\ \A k \in 2..Len(val) : IsDigit(val[k])

\* a faulty schema, off by one: z.string().min(5, ...)
PasswordOkFive(password) == Len(password) >= MinPasswordLen - 1
\* z.string().min(6, ...)
PasswordOk(password) == Len(password) >= MinPasswordLen

EmailError(data) ==
    IF IsEmail(data.email) THEN NoMessage ELSE <<"Invalid email address">>

PasswordError(data) ==
    IF PasswordOk(data.password) THEN NoMessage
    ELSE <<"Password must be at least 6 characters">>

TermsError(data) ==
    IF data.agreeToTerms = TRUE THEN NoMessage
    ELSE <<"You must agree to the terms">>

NameError(data) ==
    IF Len(data.fullName) >= MinNameLen THEN NoMessage ELSE <<"Name is required">>

PhoneError(data) ==
    IF Len(data.phone) < 1 THEN <<"Phone number is required">>
    ELSE IF ~isValidPhoneNumber(data.phone)
    THEN <<"Please enter a valid phone number with country code">>
    ELSE NoMessage

\* the field errors the resolver reports for the form values data
signUpSchemaSimple(data) ==
    [f \in AllFields |->
        CASE f = "email" -> EmailError(data)
          [] f = "password" -> PasswordError(data)
          [] f = "agreeToTerms" -> TermsError(data)
          [] OTHER -> NoMessage]

signUpSchemaFull(data) ==
    [f \in AllFields |->
        CASE f = "fullName" -> NameError(data)
          [] f = "phone" -> PhoneError(data)
          [] f = "email" -> EmailError(data)
          [] f = "password" -> PasswordError(data)
          [] f = "agreeToTerms" -> TermsError(data)]

signUpSchema(variant, data) ==
    IF variant = "full" THEN signUpSchemaFull(data) ELSE signUpSchemaSimple(data)

\* the data signUp is called with: the simplified schema transforms the
\* email and its onSubmit normalises it again; the full form sends the
\* values as typed
SubmitData(variant, data) ==
    IF variant = "full" THEN data
    ELSE [data EXCEPT !.email = NormalizeEmail(NormalizeEmail(data.email))]

\* the submit button: handleSubmit(onSubmit), up to the await of signUp
Submit(data) ==
    /\ LET errs == signUpSchema(formVariant, data) IN
       IF errs # NoErrors
       THEN /\ formErrors' = errs
            /\ signUpCall' = signUpCall
            /\ out' = <<>>
       ELSE /\ formErrors' = NoErrors
            /\ signUpCall' = Append(signUpCall, SubmitData(formVariant, data))
            /\ out' = <<[fx |-> "signUp", msg |-> SubmitData(formVariant, data).email]>>
    /\ UNCHANGED <<formVariant, sideVars, userVars, shareVars, listVars, queryVars, asyncVars, netVars>>

Without(seq, i) == SubSeq(seq, 1, i - 1) \o SubSeq(seq, i + 1, Len(seq))

\* signUp resolves
SignUpResolves(i) ==
    /\ i \in DOMAIN signUpCall
    /\ signUpCall' = Without(signUpCall, i)
    /\ out' = <<>>
    /\ UNCHANGED <<formVariant, formErrors, sideVars, userVars, shareVars, listVars, queryVars,
                   asyncVars, netVars>>

\* err.path.includes(field), the path being the list of its segments
pathIncludes(path, field) == \E k \in DOMAIN path : path[k] = field

\* err.message || fallback
MessageOr(message, fallback) == IF message # NoMessage THEN message ELSE fallback

\* the body of the forEach in the catch of onSubmit
setErrorSimple(errs, err) ==
    LET e1 == IF pathIncludes(err.path, "email")
              THEN [errs EXCEPT !["email"] =
                        MessageOr(err.message, <<"Invalid email format">>)]
              ELSE errs
    IN IF pathIncludes(err.path, "password")
       THEN [e1 EXCEPT !["password"] =
                 MessageOr(err.message, <<"Invalid password format">>)]
       ELSE e1

setErrorFull(errs, err) ==
    IF pathIncludes(err.path, "phone")
    THEN [errs EXCEPT !["phone"] =
              MessageOr(err.message, <<"Invalid phone number format">>)]
    ELSE errs

RECURSIVE forEachError(_, _, _)
forEachError(variant, errs, list) ==
    IF list = <<>> THEN errs
    ELSE forEachError(variant,
                      IF variant = "full" THEN setErrorFull(errs, Head(list))
                      ELSE setErrorSimple(errs, Head(list)),
                      Tail(list))

\* signUp rejects: the catch of onSubmit.  error.hasErrors says whether
\* error.response?.data?.errors is there.
SignUpRejects(i, error) ==
    /\ i \in DOMAIN signUpCall
    /\ signUpCall' = Without(signUpCall, i)
    /\ formErrors' = IF error.hasErrors
                     THEN forEachError(formVariant, formErrors, error.errors)
                     ELSE formErrors
    /\ out' = <<>>
    /\ UNCHANGED <<formVariant, sideVars, userVars, shareVars, listVars, queryVars, asyncVars, netVars>>

(***************************************************************************)
(* FormSpec: the sign-up form, either version, filled with sample values   *)
(* and answered by the backend.                                            *)
(***************************************************************************)
\* FormSpec: signUp calls awaiting their answer
FormCalls == 1
\* FormSpec: entries of a backend errors list
MaxErrors == 1

Emails ==
    { <<>>,
      <<"a", "b">>,
      <<"A", "@", "b", ".", "c", "o">>,
      <<"a", " ", "@", "b", ".", "c", "o">> }

Passwords == { <<"p", "w", "1", "2", "3">>, <<"p", "w", "1", "2", "3", "4">> }

Names == { <<"J">>, <<"J", "o">> }

Phones ==
    { <<>>,
      <<"+", "1">>,
      <<"+", "1", "2", "1", "3", "3", "7", "3", "4", "2", "5", "3">> }

FormInputs(variant) ==
    IF variant = "full"
    THEN [fullName : Names, phone : Phones, email : Emails,
          password : Passwords, agreeToTerms : BOOLEAN]
    ELSE [fullName : {<<>>}, phone : {<<>>}, email : Emails,
          password : Passwords, agreeToTerms : BOOLEAN]

\* one entry of a backend errors list
BackendErrors ==
    [path : {<<"body", f>> : f \in AllFields \cup {"otp"}},
     message : {NoMessage, <<"Rejected by the server">>}]

RECURSIVE ErrorLists(_)
ErrorLists(n) ==
    IF n = 0 THEN {<<>>}
    ELSE ErrorLists(n - 1) \cup
         {Append(l, e) : l \in {l \in ErrorLists(n - 1) : Len(l) = n - 1},
                         e \in BackendErrors}

\* what signUp rejects with: no errors list (a network failure, a response
\* with a message only), or a validation response with its errors list
Rejections ==
    {[hasErrors |-> FALSE, errors |-> <<>>]} \cup
    {[hasErrors |-> TRUE, errors |-> l] : l \in ErrorLists(MaxErrors)}

FormInit ==
    /\ server = SmallCatalogue
    /\ isAdmin = FALSE
    /\ isSubscribed = FALSE
    /\ formVariant \in {"simple", "full"}
    /\ formErrors = NoErrors
    /\ signUpCall = <<>>
    /\ ListInit /\ NetInit /\ NoShare /\ NoSideBar /\ ObsInit

FormNext ==
    \/ \E data \in FormInputs(formVariant) :
          Submit(data) /\ Len(signUpCall') <= FormCalls
    \/ \E i \in 1..FormCalls : SignUpResolves(i)
    \/ \E i \in 1..FormCalls, error \in Rejections : SignUpRejects(i, error)

FormSpec == FormInit /\ [][FormNext]_vars

\* C6 (as stated): when signUp rejects with a validation response, every
\* listed error whose path names a field of the mounted form leaves an
\* error message on that field; when the rejection has no errors list the
\* field errors stay as they were.
C6_BackendErrorsMapped ==
    [][\A i \in 1..FormCalls, error \in Rejections :
          SignUpRejects(i, error) =>
              IF error.hasErrors
              THEN \A k \in DOMAIN error.errors :
                       \A f \in FormFields(formVariant) :
                           pathIncludes(error.errors[k].path, f) =>
                               formErrors'[f] # NoMessage
              ELSE formErrors' = formErrors]_vars

\* the values pass the schema as the claim words it
Acceptable(variant, data) ==
    /\ IsEmail(data.email)
    /\ Len(data.password) >= MinPasswordLen
    /\ data.agreeToTerms = TRUE
    /\ variant = "full" =>
           Len(data.fullName) >= MinNameLen /\ isValidPhoneNumber(data.phone)

\* C7: signUp is called only with values that pass the schema (a valid
\* email address, a password of at least 6 characters, agreeToTerms true,
\* and in the full form a name of at least 2 characters and a valid phone
\* number); a submit of any other values calls nothing and leaves on each
\* failing field its message.
C7_SchemaGate ==
    /\ [](\A i \in DOMAIN signUpCall : Acceptable(formVariant, signUpCall[i]))
    /\ [][\A data \in FormInputs(formVariant) :
             (Submit(data) /\ ~Acceptable(formVariant, data)) =>
                 /\ signUpCall' = signUpCall
                 /\ out' = <<>>
                 /\ ~IsEmail(data.email) =>
                        formErrors'["email"] = <<"Invalid email address">>
                 /\ Len(data.password) < MinPasswordLen =>
                        formErrors'["password"] =
                            <<"Password must be at least 6 characters">>
                 /\ data.agreeToTerms # TRUE =>
                        formErrors'["agreeToTerms"] = <<"You must agree to the terms">>
                 /\ (formVariant = "full" /\ Len(data.fullName) < MinNameLen) =>
                        formErrors'["fullName"] = <<"Name is required">>
                 /\ (formVariant = "full" /\ ~isValidPhoneNumber(data.phone)) =>
                        formErrors'["phone"] # NoMessage]_vars

\* C7, its case: in the full form a sign-up request made from passing
\* values awaits its answer, and a later submit with a short password and
\* an invalid phone number was refused with the messages on those fields.
C7_CallAndRefusal ==
    /\ formVariant = "full"
    /\ Len(signUpCall) = 1
    /\ formErrors["password"] = <<"Password must be at least 6 characters">>
    /\ formErrors["phone"] = <<"Please enter a valid phone number with country code">>
    /\ formErrors["email"] = NoMessage

(***************************************************************************)
(* Network calls besides the sounds query: the connection lists and        *)
(* mutations of useConnections, downloadSound and the logout of SideBar.   *)
(***************************************************************************)
\* the fallback text of each list hook's error toast
QueryFallback(q) ==
    CASE q = "users" -> <<"Failed to fetch users">>
      [] q = "friends" -> <<"Failed to fetch friends">>
      [] q = "sent" -> <<"Failed to fetch sent requests">>
      [] q = "received" -> <<"Failed to fetch received requests">>

\* the request of list q is answered
queryOnSuccess(key) ==
    /\ key \in DOMAIN queries
    /\ queries[key] = "fetching"
    /\ queries' = [queries EXCEPT ![key] = "success"]
    /\ cacheStale' = cacheStale \ {key}
    /\ out' = <<>>
    /\ UNCHANGED <<mutations, logout, downloads>>
    /\ UNCHANGED <<sideVars, userVars, shareVars, listVars, queryVars, asyncVars, formVars>>

\* onError of a list hook; message is error.response?.data?.message
queryOnError(key, message) ==
    /\ key \in DOMAIN queries
    /\ queries[key] = "fetching"
    /\ queries' = [queries EXCEPT ![key] = "error"]
    /\ out' = <<ToastError(MessageOr(message, QueryFallback(KindOf(key))))>>
    /\ UNCHANGED <<mutations, cacheStale, logout, downloads>>
    /\ UNCHANGED <<sideVars, userVars, shareVars, listVars, queryVars, asyncVars, formVars>>

\* the endpoint of each connection mutation
MutationPath(m) ==
    CASE m = "send" -> <<"/user-connection/send-request">>
      [] m = "accept" -> <<"/user-connection/accept-request">>
      [] m = "reject" -> <<"/user-connection/reject-request">>
      [] m = "cancel" -> <<"/user-connection/cancel-request">>
      [] m = "remove" -> <<"/user-connection/remove-friend">>

\* mutate() of a connection mutation hook
mutate(m) ==
    /\ mutations[m] = "idle"
    /\ mutations' = [mutations EXCEPT ![m] = "pending"]
    /\ out' = <<[fx |-> "request", msg |-> MutationPath(m)]>>
    /\ UNCHANGED <<queries, cacheStale, logout, downloads>>
    /\ UNCHANGED <<sideVars, userVars, shareVars, listVars, queryVars, asyncVars, formVars>>

\* partial matching of query keys: key begins with queryKey
partialMatchKey(key, queryKey) ==
    /\ Len(key) >= Len(queryKey)
    /\ \A k \in DOMAIN queryKey : key[k] = queryKey[k]

\* queryClient.invalidateQueries({ queryKey }): the cache entries that are
\* marked stale and, being mounted, fetched again
invalidateQueries(queryKey) ==
    {key \in DOMAIN queries : partialMatchKey(key, queryKey)}

InvalidatedKeyLists == CONNECTION_KEYS_lists

\* the queryKey the onSuccess of every connection mutation invalidates
InvalidatedKey == CONNECTION_KEYS_all

\* onSuccess of a connection mutation hook
mutationOnSuccess(m) ==
    /\ mutations[m] = "pending"
    /\ mutations' = [mutations EXCEPT ![m] = "idle"]
    /\ cacheStale' = cacheStale \cup invalidateQueries(InvalidatedKey)
    /\ queries' = [key \in DOMAIN queries |->
                      IF key \in invalidateQueries(InvalidatedKey)
                      THEN "fetching" ELSE queries[key]]
    /\ out' = <<>>
    /\ UNCHANGED <<logout, downloads>>
    /\ UNCHANGED <<sideVars, userVars, shareVars, listVars, queryVars, asyncVars, formVars>>

\* onError of a connection mutation hook: console.error and nothing else
mutationOnError(m) ==
    /\ mutations[m] = "pending"
    /\ mutations' = [mutations EXCEPT ![m] = "idle"]
    /\ out' = <<>>
    /\ UNCHANGED <<queries, cacheStale, logout, downloads>>
    /\ UNCHANGED <<sideVars, userVars, shareVars, listVars, queryVars, asyncVars, formVars>>

UpgradeToast == ToastError(<<"Please upgrade to premium to download sounds!">>)
DownloadFailedToast == ToastError(<<"Failed to download sound. Please try again.">>)

\* a faulty downloadSound without the subscription guard
DownloadAllowedAlways == TRUE
\* the negation of the guard of downloadSound: !isSubscribed
DownloadAllowed == isSubscribed

\* downloadSound(sound), up to the await of fetch
downloadSound(sound) ==
    /\ IF ~DownloadAllowed
       THEN /\ out' = <<UpgradeToast>>
            /\ downloads' = downloads
       ELSE /\ downloads' = Put(downloads, NewToken(downloads),
                                [name |-> sound.name, link |-> sound.link,
                                 stage |-> "fetch"])
            /\ out' = <<[fx |-> "fetch", msg |-> sound.link]>>
    /\ UNCHANGED <<queries, mutations, cacheStale, logout>>
    /\ UNCHANGED <<sideVars, userVars, shareVars, listVars, queryVars, asyncVars, formVars>>

\* the catch of downloadSound
downloadCatch(d) ==
    /\ downloads' = Drop(downloads, d)
    /\ out' = <<DownloadFailedToast>>
    /\ UNCHANGED <<queries, mutations, cacheStale, logout>>
    /\ UNCHANGED <<sideVars, userVars, shareVars, listVars, queryVars, asyncVars, formVars>>

\* fetch resolves with a response; ok is response.ok
fetchResolves(d, ok) ==
    /\ d \in DOMAIN downloads
    /\ downloads[d].stage = "fetch"
    /\ IF ok
       THEN /\ downloads' = [downloads EXCEPT ![d].stage = "blob"]
            /\ out' = <<>>
            /\ UNCHANGED <<queries, mutations, cacheStale, logout>>
            /\ UNCHANGED <<sideVars, userVars, shareVars, listVars, queryVars, asyncVars, formVars>>
       ELSE downloadCatch(d)

\* fetch rejects
fetchRejects(d) ==
    /\ d \in DOMAIN downloads
    /\ downloads[d].stage = "fetch"
    /\ downloadCatch(d)

\* response.blob() resolves: the link is clicked, the file is saved
blobResolves(d) ==
    /\ d \in DOMAIN downloads
    /\ downloads[d].stage = "blob"
    /\ downloads' = Drop(downloads, d)
    /\ out' = << [fx |-> "save", msg |-> downloads[d].name \o <<".mp3">>],
                 ToastSuccess(<<"\"">> \o downloads[d].name \o
                              <<"\" downloaded successfully!">>) >>
    /\ UNCHANGED <<queries, mutations, cacheStale, logout>>
    /\ UNCHANGED <<sideVars, userVars, shareVars, listVars, queryVars, asyncVars, formVars>>

\* response.blob() rejects
blobRejects(d) ==
    /\ d \in DOMAIN downloads
    /\ downloads[d].stage = "blob"
    /\ downloadCatch(d)

\* handleLogout, up to the await of signOut
handleLogout ==
    /\ logout = "idle"
    /\ logout' = "pending"
    /\ out' = <<[fx |-> "request", msg |-> <<"signOut">>]>>
    /\ UNCHANGED <<queries, mutations, cacheStale, downloads>>
    /\ UNCHANGED <<sideVars, userVars, shareVars, listVars, queryVars, asyncVars, formVars>>

\* signOut resolves
signOutResolves ==
    /\ logout = "pending"
    /\ logout' = "idle"
    /\ out' = <<>>
    /\ UNCHANGED <<queries, mutations, cacheStale, downloads>>
    /\ UNCHANGED <<sideVars, userVars, shareVars, listVars, queryVars, asyncVars, formVars>>

\* signOut rejects: the catch of handleLogout
signOutRejects ==
    /\ logout = "pending"
    /\ logout' = "idle"
    /\ out' = <<ToastError(<<"Logout failed">>)>>
    /\ UNCHANGED <<queries, mutations, cacheStale, downloads>>
    /\ UNCHANGED <<sideVars, userVars, shareVars, listVars, queryVars, asyncVars, formVars>>

(***************************************************************************)
(* NetSpec: the connection lists and mutations, downloads of the sounds    *)
(* of the backend, and logout.                                             *)
(***************************************************************************)
\* NetSpec: mutations, downloads and logouts awaiting their answer
NetCalls == 1

PendingCalls(muts, dls, lo) ==
    Cardinality({m \in MutationNames : muts[m] = "pending"}) +
    Cardinality(DOMAIN dls) + (IF lo = "pending" THEN 1 ELSE 0)

\* error.response?.data?.message of a failed list request
BackendMessages == {NoMessage, <<"Server error">>}

\* the sounds downloadSound is called with
DownloadSounds == Range(FormatSounds(SmallCatalogue, 0))

NetSpecInit ==
    /\ server = SmallCatalogue
    /\ isAdmin = FALSE
    /\ isSubscribed \in BOOLEAN
    /\ ListInit /\ NetInit /\ NoForm /\ NoShare /\ NoSideBar /\ ObsInit

NetNext ==
    \/ \E key \in DOMAIN queries : queryOnSuccess(key)
    \/ \E key \in DOMAIN queries, message \in BackendMessages :
          queryOnError(key, message)
    \/ \E m \in MutationNames :
          mutate(m) /\ PendingCalls(mutations', downloads', logout') <= NetCalls
    \/ \E m \in MutationNames : mutationOnSuccess(m)
    \/ \E m \in MutationNames : mutationOnError(m)
    \/ \E sound \in DownloadSounds :
          downloadSound(sound)
          /\ PendingCalls(mutations', downloads', logout') <= NetCalls
    \/ \E d \in 1..NetCalls, ok \in BOOLEAN : fetchResolves(d, ok)
    \/ \E d \in 1..NetCalls : fetchRejects(d)
    \/ \E d \in 1..NetCalls : blobResolves(d)
    \/ \E d \in 1..NetCalls : blobRejects(d)
    \/ handleLogout /\ PendingCalls(mutations', downloads', logout') <= NetCalls
    \/ signOutResolves
    \/ signOutRejects

NetSpec == NetSpecInit /\ [][NetNext]_vars

\* a step in which a network call fails
NetworkCallFails ==
    \/ \E key \in DOMAIN queries, message \in BackendMessages :
          queryOnError(key, message)
    \/ \E m \in MutationNames : mutationOnError(m)
    \/ \E d \in DOMAIN downloads :
          fetchResolves(d, FALSE) \/ fetchRejects(d) \/ blobRejects(d)
    \/ signOutRejects

ShowsErrorToast(effects) ==
    \E k \in DOMAIN effects : effects[k].fx = "toast.error"

SavesFile(effects) ==
    \E k \in DOMAIN effects : effects[k].fx = "save"

\* C5 (as stated): every failed network call (a list query, a connection
\* mutation, a download, a logout) shows an error toast.
C5_FailuresToasted == [][NetworkCallFails => ShowsErrorToast(out')]_vars

\* C10: downloading is only for subscribed users.  downloadSound for a
\* user who is not subscribed starts no fetch and saves no file and shows
\* the upgrade error, and no download of such a user is ever under way;
\* a response that is not OK and a failed fetch end the download with the
\* failure toast and no file saved.
C10_DownloadGate ==
    /\ [](~isSubscribed => downloads = <<>>)
    /\ [][\A sound \in DownloadSounds :
             (downloadSound(sound) /\ ~isSubscribed) =>
                 /\ downloads' = downloads
                 /\ out' = <<UpgradeToast>>]_vars
    /\ [][\A d \in DOMAIN downloads :
             (fetchResolves(d, FALSE) \/ fetchRejects(d)) =>
                 /\ out' = <<DownloadFailedToast>>
                 /\ ~SavesFile(out')
                 /\ d \notin DOMAIN downloads']_vars
    /\ [](SavesFile(out) => isSubscribed)

\* C10, its case: a user who is not subscribed has just been refused a
\* download with the upgrade error, nothing being fetched.
C10_DownloadRefused ==
    /\ ~isSubscribed
    /\ out = <<UpgradeToast>>
    /\ downloads = <<>>

(***************************************************************************)
(* Deleting (admin): the Delete button, the delete modal, confirmDelete.   *)
(* The delete hooks (hooks/useSound) are shown by the mutate() call only.  *)
(***************************************************************************)
\* ids as they are written in a request
IdsText(ids) == [k \in DOMAIN ids |-> Digit(ids[k])]

\* deleteSoundMutation.mutate(id)
DeleteOne(id) == [fx |-> "deleteSound.mutate", msg |-> <<Digit(id)>>]
\* deleteMultipleSoundsMutation.mutate(ids)
DeleteMany(ids) == [fx |-> "deleteMultipleSounds.mutate", msg |-> IdsText(ids)]

\* the Delete button is rendered
DeleteOfferedToAll == Len(selectedSounds) > 0

DeleteOffered == isAdmin /\ Len(selectedSounds) > 0

openDeleteModal ==
    /\ DeleteOffered
    /\ isDeleteModalOpen' = TRUE
    /\ out' = <<>>
    /\ UNCHANGED <<isShareModalOpen, shareData, canShare, shares, sends,
                   friendListData, isFriendListLoading>>
    /\ UNCHANGED <<sideVars, userVars, listVars, queryVars, asyncVars, netVars, formVars>>

\* the Cancel button of DeleteModal
cancelDelete ==
    /\ isDeleteModalOpen
    /\ isDeleteModalOpen' = FALSE
    /\ out' = <<>>
    /\ UNCHANGED <<isShareModalOpen, shareData, canShare, shares, sends,
                   friendListData, isFriendListLoading>>
    /\ UNCHANGED <<sideVars, userVars, listVars, queryVars, asyncVars, netVars, formVars>>

IsSingleAny(selected) == Len(selected) >= 1

\* selectedSounds.length === 1
IsSingle(selected) == Len(selected) = 1

\* the Delete button of DeleteModal
confirmDelete ==
    /\ isDeleteModalOpen
    /\ out' = IF IsSingle(selectedSounds)
              THEN <<DeleteOne(selectedSounds[1])>>
              ELSE IF Len(selectedSounds) > 1
              THEN <<DeleteMany(selectedSounds)>>
              ELSE <<>>
    /\ isDeleteModalOpen' = FALSE
    /\ UNCHANGED <<isShareModalOpen, shareData, canShare, shares, sends,
                   friendListData, isFriendListLoading>>
    /\ UNCHANGED <<sideVars, userVars, listVars, queryVars, asyncVars, netVars, formVars>>

(***************************************************************************)
(* Sharing and sending.  A share payload is { title, text, url }.          *)
(***************************************************************************)
\* import.meta.env.VITE_BASE_URL
API_URL == <<"h", ":">>

SomeSelected(soundList) == \E k \in DOMAIN soundList : soundList[k].selected

\* soundList.find((sound) => sound.selected), when SomeSelected(soundList)
FindSelected(soundList) ==
    LET k == CHOOSE k \in DOMAIN soundList :
                 /\ soundList[k].selected
                 /\ \A j \in 1..(k - 1) : ~soundList[j].selected
    IN soundList[k]

NoSoundToast == ToastError(<<"No sound selected. Please select a sound first!">>)

SharePayload(sound) ==
    LET soundUrl == API_URL \o sound.link
    IN [title |-> sound.name, text |-> soundUrl, url |-> soundUrl]

NativeShare(payload) == [fx |-> "navigator.share", msg |-> payload.url]
ClearSelectedSound == [fx |-> "clearSelectedSound", msg |-> <<>>]
Navigate(path) == [fx |-> "navigate", msg |-> path]

SharedToast(name) ==
    ToastSuccess(<<"\"">> \o name \o <<"\" sound ready to shared!">>)

\* shareSound, up to its await
shareSound ==
    /\ IF ~SomeSelected(sounds)
       THEN /\ out' = <<NoSoundToast>>
            /\ UNCHANGED <<isShareModalOpen, shareData, shares>>
       ELSE LET selectedSound == FindSelected(sounds)
                sharePayload == SharePayload(selectedSound)
            IN IF canShare
               THEN /\ shares' = Append(shares, [payload |-> sharePayload,
                                                 name |-> selectedSound.name])
                    /\ out' = <<NativeShare(sharePayload)>>
                    /\ UNCHANGED <<isShareModalOpen, shareData>>
               ELSE /\ shareData' = <<sharePayload>>
                    /\ isShareModalOpen' = TRUE
                    /\ out' = <<>>
                    /\ UNCHANGED shares
    /\ UNCHANGED <<isDeleteModalOpen, canShare, sends, friendListData,
                   isFriendListLoading>>
    /\ UNCHANGED <<sideVars, userVars, listVars, queryVars, asyncVars, netVars, formVars>>

\* the Share Sound button is rendered / is not disabled
ShareOffered == ~isAdmin
ShareEnabled == SomeSelected(sounds)

\* a click on the Share Sound button
clickShare == ShareOffered /\ ShareEnabled /\ shareSound

\* await navigator.share(sharePayload) is fulfilled
shareResolves(i) ==
    /\ i \in DOMAIN shares
    /\ shares' = Without(shares, i)
    /\ out' = <<ClearSelectedSound, SharedToast(shares[i].name)>>
    /\ UNCHANGED <<isDeleteModalOpen, isShareModalOpen, shareData, canShare,
                   sends, friendListData, isFriendListLoading>>
    /\ UNCHANGED <<sideVars, userVars, listVars, queryVars, asyncVars, netVars, formVars>>

FallsBackOnAbort(errorName) == TRUE

\* the catch of shareSound opens the share modal
FallsBack(errorName) == errorName # "AbortError"

\* await navigator.share(sharePayload) is rejected with an error of this name
shareRejects(i, errorName) ==
    /\ i \in DOMAIN shares
    /\ shares' = Without(shares, i)
    /\ IF FallsBack(errorName)
       THEN /\ shareData' = <<shares[i].payload>>
            /\ isShareModalOpen' = TRUE
       ELSE UNCHANGED <<shareData, isShareModalOpen>>
    /\ out' = <<>>
    /\ UNCHANGED <<isDeleteModalOpen, canShare, sends, friendListData,
                   isFriendListLoading>>
    /\ UNCHANGED <<sideVars, userVars, listVars, queryVars, asyncVars, netVars, formVars>>

\* onClose of ShareModal
closeShareModal ==
    /\ isShareModalOpen
    /\ isShareModalOpen' = FALSE
    /\ out' = <<>>
    /\ UNCHANGED <<isDeleteModalOpen, shareData, canShare, shares, sends,
                   friendListData, isFriendListLoading>>
    /\ UNCHANGED <<sideVars, userVars, listVars, queryVars, asyncVars, netVars, formVars>>

\* the names navigator.share rejects with
ShareErrors == {"AbortError", "NotAllowedError", "DataError"}

(***************************************************************************)
(* DeleteSpec: the buttons under the list, for an admin and for another    *)
(* user, over a backend with two sounds.                                   *)
(***************************************************************************)
\* DeleteSpec: loadAudioDurations runs under way at the same time
DeleteRuns == 1
\* DeleteSpec: navigator.share calls waiting at the same time
DeleteShares == 1

DeleteInit ==
    /\ server = SmallCatalogue
    /\ isAdmin \in BOOLEAN
    /\ isSubscribed = FALSE
    /\ canShare \in BOOLEAN
    /\ ListInit /\ NetInit /\ NoForm /\ NoModal /\ FriendsLoading
    /\ NoSideBar /\ ObsInit

DeleteNext ==
    \/ QuerySuccess(MatchResponse(searchTerm))
          /\ Cardinality(DOMAIN runs') <= DeleteRuns
    \/ \E r \in 1..DeleteRuns, k \in 1..Len(SmallCatalogue) : onLoaded(r, k)
    \/ \E r \in 1..DeleteRuns, k \in 1..Len(SmallCatalogue) : onError(r, k)
    \/ \E r \in 1..DeleteRuns, k \in 1..Len(SmallCatalogue) : onTimeout(r, k)
    \/ \E id \in SoundIds : toggleSelect(id)
    \/ openDeleteModal
    \/ cancelDelete
    \/ confirmDelete
    \/ clickShare /\ Len(shares') <= DeleteShares
    \/ \E i \in 1..DeleteShares : shareResolves(i)
    \/ \E i \in 1..DeleteShares, e \in ShareErrors : shareRejects(i, e)
    \/ closeShareModal

DeleteSpec == DeleteInit /\ [][DeleteNext]_vars

DeleteIssued(effects) ==
    \E k \in DOMAIN effects :
        effects[k].fx \in {"deleteSound.mutate", "deleteMultipleSounds.mutate"}

ShareIssued(effects) ==
    \E k \in DOMAIN effects : effects[k].fx = "navigator.share"

\* C11: confirmDelete deletes exactly the sounds flagged selected: one
\* single-delete mutation for the id when one sound is selected, one
\* multi-delete mutation for exactly the selected ids when more are, no
\* mutation when none is; it closes the delete modal in each case, and
\* nothing else issues a delete mutation.
C11_DeletesSelected ==
    /\ [][confirmDelete =>
             LET selected == SelectedIds(sounds)
             IN /\ Len(selected) = 1 => out' = <<DeleteOne(selected[1])>>
                /\ Len(selected) > 1 => out' = <<DeleteMany(selected)>>
                /\ Len(selected) = 0 => out' = <<>>
                /\ ~isDeleteModalOpen']_vars
    /\ [][(DeleteIssued(out') /\ out' # out) => confirmDelete]_vars

\* C11, its case: both sounds were selected and confirmDelete has issued
\* the multi-delete mutation for them and closed the modal.
C11_BothDeleted ==
    /\ SelectedIds(sounds) = <<1, 2>>
    /\ out = <<DeleteMany(<<1, 2>>)>>
    /\ ~isDeleteModalOpen

\* C12: the delete modal is opened only by an admin with at least one
\* sound selected, a user who is not an admin never has the delete modal
\* open and never issues a delete mutation, and an admin never shares.
C12_DeleteForAdminOnly ==
    /\ [](~isAdmin => ~isDeleteModalOpen /\ ~DeleteIssued(out))
    /\ [][(~isDeleteModalOpen /\ isDeleteModalOpen') =>
             isAdmin /\ Len(SelectedIds(sounds)) > 0]_vars
    /\ [](isAdmin => shares = <<>> /\ ~isShareModalOpen /\ ~ShareIssued(out))

\* C12, its case: a user who is not an admin has a sound selected and has
\* shared it (the share modal is open); the delete modal is closed.
C12_NonAdminShares ==
    /\ ~isAdmin
    /\ SomeSelected(sounds)
    /\ isShareModalOpen
    /\ ~isDeleteModalOpen

(***************************************************************************)
(* sendToFriend and the friend list it reads (useFriendList, as the        *)
(* component sees it).  A send is the variables of the mutate() call.      *)
(***************************************************************************)
\* the ids of the user's friends, as the backend holds them
ServerFriends == <<7, 8>>

\* friendListData?.data?.data?.data || []
friends == IF friendListData = NoData THEN <<>> ELSE friendListData[1]

friendIds == IF ~isFriendListLoading THEN friends ELSE <<>>

\* the friend list is fetched
friendListResolves ==
    /\ isFriendListLoading
    /\ friendListData' = <<ServerFriends>>
    /\ isFriendListLoading' = FALSE
    /\ out' = <<>>
    /\ UNCHANGED <<isDeleteModalOpen, isShareModalOpen, shareData, canShare,
                   shares, sends>>
    /\ UNCHANGED <<sideVars, userVars, listVars, queryVars, asyncVars, netVars, formVars>>

\* the fetch of the friend list fails (onError of useFriendList)
friendListRejects ==
    /\ isFriendListLoading
    /\ isFriendListLoading' = FALSE
    /\ out' = <<ToastError(QueryFallback("friends"))>>
    /\ UNCHANGED <<isDeleteModalOpen, isShareModalOpen, shareData, canShare,
                   shares, sends, friendListData>>
    /\ UNCHANGED <<sideVars, userVars, listVars, queryVars, asyncVars, netVars, formVars>>

SendRequest(variables) == [fx |-> "sendSoundMessage.mutate", msg |-> variables.link]

SentToast(name) ==
    ToastSuccess(<<"Sound \"">> \o name \o <<"\" sent successfully! to all friends">>)

sendToFriend ==
    /\ IF SomeSelected(sounds)
       THEN LET selectedSound == FindSelected(sounds)
                variables == [users |-> friendIds,
                              link |-> API_URL \o selectedSound.link,
                              soundTitle |-> selectedSound.name]
            IN /\ sends' = Append(sends, variables)
               /\ out' = <<SendRequest(variables)>>
       ELSE /\ out' = <<NoSoundToast, ClearSelectedSound>>
            /\ UNCHANGED sends
    /\ UNCHANGED <<isDeleteModalOpen, isShareModalOpen, shareData, canShare,
                   shares, friendListData, isFriendListLoading>>
    /\ UNCHANGED <<sideVars, userVars, listVars, queryVars, asyncVars, netVars, formVars>>

\* onSuccess of the mutate() call
sendSucceeds(i) ==
    /\ i \in DOMAIN sends
    /\ sends' = Without(sends, i)
    /\ out' = <<SentToast(sends[i].soundTitle), ClearSelectedSound,
                Navigate(<<"/all-friends">>)>>
    /\ UNCHANGED <<isDeleteModalOpen, isShareModalOpen, shareData, canShare,
                   shares, friendListData, isFriendListLoading>>
    /\ UNCHANGED <<sideVars, userVars, listVars, queryVars, asyncVars, netVars, formVars>>

\* the mutation fails: the mutate() call passes no onError
sendFails(i) ==
    /\ i \in DOMAIN sends
    /\ sends' = Without(sends, i)
    /\ out' = <<>>
    /\ UNCHANGED <<isDeleteModalOpen, isShareModalOpen, shareData, canShare,
                   shares, friendListData, isFriendListLoading>>
    /\ UNCHANGED <<sideVars, userVars, listVars, queryVars, asyncVars, netVars, formVars>>

(***************************************************************************)
(* ShareSpec: shareSound and sendToFriend called as the functions they     *)
(* are, by a user who is not an admin, over a backend with two sounds.     *)
(***************************************************************************)
\* ShareSpec: loadAudioDurations runs under way at the same time
ShareRuns == 1
\* ShareSpec: navigator.share calls, and send mutations, under way at the
\* same time
ShareCalls == 1

ShareInit ==
    /\ server = SmallCatalogue
    /\ isAdmin = FALSE
    /\ isSubscribed = FALSE
    /\ canShare \in BOOLEAN
    /\ ListInit /\ NetInit /\ NoForm /\ NoModal /\ FriendsLoading
    /\ NoSideBar /\ ObsInit

ShareNext ==
    \/ QuerySuccess(MatchResponse(searchTerm))
          /\ Cardinality(DOMAIN runs') <= ShareRuns
    \/ \E r \in 1..ShareRuns, k \in 1..Len(SmallCatalogue) : onLoaded(r, k)
    \/ \E r \in 1..ShareRuns, k \in 1..Len(SmallCatalogue) : onTimeout(r, k)
    \/ \E id \in SoundIds : toggleSelect(id)
    \/ shareSound /\ Len(shares') <= ShareCalls
    \/ \E i \in 1..ShareCalls : shareResolves(i)
    \/ \E i \in 1..ShareCalls, e \in ShareErrors : shareRejects(i, e)
    \/ closeShareModal
    \/ friendListResolves
    \/ friendListRejects
    \/ sendToFriend /\ Len(sends') <= ShareCalls
    \/ \E i \in 1..ShareCalls : sendSucceeds(i)
    \/ \E i \in 1..ShareCalls : sendFails(i)

ShareSpec == ShareInit /\ [][ShareNext]_vars

\* the payload the claims expect for a sound: its name and its URL
ExpectedPayload(sound) ==
    [title |-> sound.name, text |-> API_URL \o sound.link,
     url |-> API_URL \o sound.link]

\* C13: shareSound with no sound selected shares nothing and shows the
\* error; with native sharing it calls navigator.share with the selected
\* sound's name and URL, and the success of that call clears the selected
\* sound; a rejection with AbortError opens no modal and changes no state;
\* any other rejection, and the absence of native sharing, open the share
\* modal with the same payload.
C13_ShareOrFallBack ==
    /\ [][shareSound =>
             IF ~SomeSelected(sounds)
             THEN /\ out' = <<NoSoundToast>>
                  /\ UNCHANGED <<shares, isShareModalOpen, shareData>>
             ELSE LET expected == ExpectedPayload(FindSelected(sounds))
                  IN IF canShare
                     THEN /\ out' = <<NativeShare(expected)>>
                          /\ Len(shares') = Len(shares) + 1
                          /\ shares'[Len(shares')].payload = expected
                          /\ UNCHANGED <<isShareModalOpen, shareData>>
                     ELSE /\ isShareModalOpen'
                          /\ shareData' = <<expected>>
                          /\ ~ShareIssued(out')
                          /\ UNCHANGED shares]_vars
    /\ [][\A i \in DOMAIN shares :
             shareResolves(i) =>
                 /\ ClearSelectedSound \in Range(out')
                 /\ UNCHANGED <<isShareModalOpen, shareData>>]_vars
    /\ [][\A i \in DOMAIN shares :
             shareRejects(i, "AbortError") =>
                 /\ UNCHANGED <<isShareModalOpen, shareData, listVars>>
                 /\ out' = <<>>]_vars
    /\ [][\A i \in DOMAIN shares, e \in ShareErrors \ {"AbortError"} :
             shareRejects(i, e) =>
                 /\ isShareModalOpen'
                 /\ shareData' = <<shares[i].payload>>]_vars
    /\ [](ClearSelectedSound \in Range(out) =>
             \/ \E k \in DOMAIN out : out[k].fx = "toast.success"
             \/ NoSoundToast \in Range(out))

\* C13, its case: native sharing is available, the share of the selected
\* sound was rejected, and the share modal is open with that sound's
\* payload.
C13_FellBackToModal ==
    /\ canShare
    /\ SomeSelected(sounds)
    /\ shares = <<>>
    /\ isShareModalOpen
    /\ shareData = <<ExpectedPayload(FindSelected(sounds))>>

\* C14 (as stated): sendToFriend with a sound selected issues one send
\* mutation to the ids of every friend of the user with the selected
\* sound's URL as link, and clears the selection and navigates only when
\* that mutation succeeds; with no sound selected it issues no mutation
\* and shows the error.
C14_SendsToAllFriends ==
    /\ [][sendToFriend =>
             IF SomeSelected(sounds)
             THEN /\ Len(sends') = Len(sends) + 1
                  /\ sends'[Len(sends')].users = ServerFriends
                  /\ sends'[Len(sends')].link =
                         API_URL \o FindSelected(sounds).link
             ELSE /\ sends' = sends
                  /\ NoSoundToast \in Range(out')]_vars
    /\ [][(Navigate(<<"/all-friends">>) \in Range(out') /\ out' # out) =>
             \E i \in DOMAIN sends : sendSucceeds(i)]_vars

\* C14, a state of the divergence: a send mutation without recipients is
\* under way while the friend list is still being fetched.
C14_SentToNobody ==
    /\ isFriendListLoading
    /\ sends # <<>>
    /\ sends[1].users = <<>>

(***************************************************************************)
(* The request of a list hook: the query string built by its queryFn.      *)
(* A URL is a sequence of tokens: the path, "?", "&", "=", the parameter   *)
(* names and the characters of the serialised values.                      *)
(***************************************************************************)
\* if (filters.search), if (filters.page): JavaScript truthiness
TruthyText(v) == v # <<>> /\ v[1] # <<>>
TruthyNumber(v) == v # <<>> /\ v[1] # 0

\* URLSearchParams serialisation of one character of a value
encodeChar(c) ==
    CASE c = " " -> <<"+">>
      [] c = "&" -> <<"%", "2", "6">>
      [] c = "=" -> <<"%", "3", "D">>
      [] c = "+" -> <<"%", "2", "B">>
      [] OTHER -> <<c>>

RECURSIVE encode(_)
encode(s) == IF s = <<>> THEN <<>> ELSE encodeChar(Head(s)) \o encode(Tail(s))

\* params after the three conditional params.append calls: name, value
URLSearchParams(filters) ==
    (IF TruthyText(filters.search)
     THEN << <<"search", filters.search[1]>> >> ELSE <<>>) \o
    (IF TruthyNumber(filters.page)
     THEN << <<"page", toString(filters.page[1])>> >> ELSE <<>>) \o
    (IF TruthyNumber(filters.limit)
     THEN << <<"limit", toString(filters.limit[1])>> >> ELSE <<>>)

\* params.toString()
RECURSIVE paramsToString(_)
paramsToString(params) ==
    IF params = <<>> THEN <<>>
    ELSE <<Head(params)[1], "=">> \o encode(Head(params)[2]) \o
         (IF Tail(params) = <<>> THEN <<>>
          ELSE <<"&">> \o paramsToString(Tail(params)))

HasQueryAlways(text) == TRUE

\* params.toString() ? ... : ""
HasQuery(text) == text # <<>>

ListPath(q) ==
    CASE q = "users" -> <<"/user/get-all-user">>
      [] q = "friends" -> <<"/user-connection/friend-list">>
      [] q = "sent" -> <<"/user-connection/sent-list">>
      [] q = "received" -> <<"/user-connection/request-list">>

\* the URL apiClient.get is called with
RequestUrl(q, filters) ==
    LET text == paramsToString(URLSearchParams(filters))
        query == IF HasQuery(text) THEN <<"?">> \o text ELSE <<>>
    IN ListPath(q) \o query

\* a list hook is mounted with filters for which the cache has no entry:
\* the entry is created and its queryFn runs
useQuery(q, filters) ==
    /\ QueryKey(q, filters) \notin DOMAIN queries
    /\ queries' = Put(queries, QueryKey(q, filters), "fetching")
    /\ out' = <<[fx |-> "get", msg |-> RequestUrl(q, filters)]>>
    /\ UNCHANGED <<mutations, cacheStale, logout, downloads>>
    /\ UNCHANGED <<sideVars, userVars, shareVars, listVars, queryVars, asyncVars, formVars>>

(***************************************************************************)
(* CacheSpec: list hooks mounted with various filters, and the connection  *)
(* mutations.                                                              *)
(***************************************************************************)
\* CacheSpec: entries of the query cache
CacheEntries == 2
\* CacheSpec: mutations under way at the same time
CacheCalls == 1

\* the filters the list hooks are called with
Filters ==
    { NoFilters,
      [search |-> << <<>> >>, page |-> <<0>>, limit |-> <<>>],
      [search |-> << <<"a", " ", "&">> >>, page |-> <<>>, limit |-> <<>>],
      [search |-> << <<"a">> >>, page |-> <<2>>, limit |-> <<10>>] }

CacheInit ==
    /\ server = SmallCatalogue
    /\ isAdmin = FALSE
    /\ isSubscribed = FALSE
    /\ queries = <<>>
    /\ mutations = [m \in MutationNames |-> "idle"]
    /\ cacheStale = {}
    /\ logout = "idle"
    /\ downloads = <<>>
    /\ ListInit /\ NoForm /\ NoShare /\ NoSideBar /\ ObsInit

CacheNext ==
    \/ \E q \in QueryNames, filters \in Filters :
          useQuery(q, filters) /\ Cardinality(DOMAIN queries') <= CacheEntries
    \/ \E key \in DOMAIN queries : queryOnSuccess(key)
    \/ \E key \in DOMAIN queries : queryOnError(key, NoMessage)
    \/ \E m \in MutationNames :
          mutate(m) /\ PendingCalls(mutations', downloads', logout') <= CacheCalls
    \/ \E m \in MutationNames : mutationOnSuccess(m)
    \/ \E m \in MutationNames : mutationOnError(m)

CacheSpec == CacheInit /\ [][CacheNext]_vars

\* C15: the success of a connection mutation marks stale every cache entry
\* whose key starts with "connections" (users, friends, sent and received
\* lists, whatever their filters), and a failed mutation marks none.
C15_SuccessInvalidatesAll ==
    /\ [][\A m \in MutationNames :
             mutationOnSuccess(m) =>
                 \A key \in DOMAIN queries :
                     key[1] = "connections" => key \in cacheStale']_vars
    /\ [][\A m \in MutationNames :
             mutationOnError(m) => cacheStale' = cacheStale]_vars

\* C15, its case: a users list and a friend list with other filters were
\* both fetched, and a mutation's success has marked both stale.
C15_BothStale ==
    \E f1, f2 \in Filters :
        /\ f1 # f2
        /\ {QueryKey("users", f1), QueryKey("friends", f2)} \subseteq cacheStale
        /\ \A m \in MutationNames : mutations[m] = "idle"

(***************************************************************************)
(* Reading a URL back: the parameters a server finds in it.                *)
(***************************************************************************)
\* the tokens after the first token sep, or <<>> when there is none
RECURSIVE After(_, _)
After(s, sep) ==
    IF s = <<>> THEN <<>>
    ELSE IF Head(s) = sep THEN Tail(s) ELSE After(Tail(s), sep)

\* the tokens before the first token sep
RECURSIVE Before(_, _)
Before(s, sep) ==
    IF s = <<>> \/ Head(s) = sep THEN <<>>
    ELSE <<Head(s)>> \o Before(Tail(s), sep)

RECURSIVE decode(_)
decode(s) ==
    IF s = <<>> THEN <<>>
    ELSE IF Head(s) = "+" THEN <<" ">> \o decode(Tail(s))
    ELSE IF Head(s) = "%" /\ Len(s) >= 3
    THEN (CASE SubSeq(s, 2, 3) = <<"2", "6">> -> <<"&">>
            [] SubSeq(s, 2, 3) = <<"3", "D">> -> <<"=">>
            [] SubSeq(s, 2, 3) = <<"2", "B">> -> <<"+">>
            [] OTHER -> <<"%">>) \o decode(SubSeq(s, 4, Len(s)))
    ELSE <<Head(s)>> \o decode(Tail(s))

\* the parameters of a query string: name, decoded value
RECURSIVE parseQuery(_)
parseQuery(text) ==
    IF text = <<>> THEN <<>>
    ELSE LET pair == Before(text, "&")
         IN << <<Head(pair), decode(After(pair, "="))>> >> \o
            parseQuery(After(text, "&"))

\* the parameters the claim expects for these filters: those that are set
\* (a non-empty search text, a page or a limit other than 0)
ExpectedParams(filters) ==
    (IF filters.search \notin {<<>>, << <<>> >>}
     THEN << <<"search", filters.search[1]>> >> ELSE <<>>) \o
    (IF filters.page \notin {<<>>, <<0>>}
     THEN << <<"page", toString(filters.page[1])>> >> ELSE <<>>) \o
    (IF filters.limit \notin {<<>>, <<0>>}
     THEN << <<"limit", toString(filters.limit[1])>> >> ELSE <<>>)

\* C16: the request of a list hook goes to the path of its list and carries
\* exactly the filters that are set, with their values, and no "?" when
\* none is set; the hook's cache entry is the one of its kind and filters,
\* and calls of different kinds or with different filters have different
\* cache keys.
C16_RequestsItsFilters ==
    /\ [][\A q \in QueryNames, filters \in Filters :
             useQuery(q, filters) =>
                 LET url == out'[1].msg
                 IN /\ Before(url, "?") = ListPath(q)
                    /\ parseQuery(After(url, "?")) = ExpectedParams(filters)
                    /\ ("?" \in Range(url)) <=> (ExpectedParams(filters) # <<>>)
                    /\ \A name \in {"search", "page", "limit"} :
                          (name \in Range(url)) <=>
                              (\E k \in DOMAIN ExpectedParams(filters) :
                                   ExpectedParams(filters)[k][1] = name)
                    /\ DOMAIN queries' = DOMAIN queries \cup {QueryKey(q, filters)}
                    /\ QueryKey(q, filters) \notin DOMAIN queries]_vars
    /\ [](\A q1, q2 \in QueryNames, f1, f2 \in Filters :
             (QueryKey(q1, f1) \in DOMAIN queries /\ <<q1, f1>> # <<q2, f2>>)
                 => QueryKey(q2, f2) # QueryKey(q1, f1))

\* C16, its case: the users list was requested with a search text, a page
\* and a limit, and the friend list without any filter.
C16_FilteredAndPlain ==
    /\ QueryKey("friends", NoFilters) \in DOMAIN queries
    /\ Cardinality(DOMAIN queries) = 2
    /\ out = <<[fx |-> "get",
                msg |-> <<"/user/get-all-user", "?", "search", "=", "a", "&",
                          "page", "=", "2", "&", "limit", "=", "1", "0">>]>>

(***************************************************************************)
(* DurationSpec: one sound whose clip has any whole number of seconds up   *)
(* to MaxSeconds; its duration is loaded and formatted.                    *)
(***************************************************************************)
\* DurationSpec: the longest clip, in seconds (more than 99 minutes)
MaxSeconds == 6100
\* DurationSpec: loadAudioDurations runs under way at the same time
DurationRuns == 1

DurationInit ==
    /\ \E secs \in 0..MaxSeconds :
          server = <<ServerSound(1, <<"A">>, FALSE, secs)>>
    /\ isAdmin = FALSE
    /\ isSubscribed = FALSE
    /\ ListInit /\ NetInit /\ NoForm /\ NoShare /\ NoSideBar /\ ObsInit

DurationNext ==
    \/ QuerySuccess(MatchResponse(searchTerm))
          /\ Cardinality(DOMAIN runs') <= DurationRuns
    \/ \E r \in 1..DurationRuns : onLoaded(r, 1)
    \/ \E r \in 1..DurationRuns : onError(r, 1)
    \/ \E r \in 1..DurationRuns : onTimeout(r, 1)

DurationSpec == DurationInit /\ [][DurationNext]_vars

\* reading a duration text back
DigitValue(c) == CHOOSE d \in 0..9 : Digit(d) = c

IsDigits(s) == s # <<>> /\ \A k \in DOMAIN s : \E d \in 0..9 : Digit(d) = s[k]

RECURSIVE ParseNat(_)
ParseNat(s) ==
    IF s = <<>> THEN 0
    ELSE 10 * ParseNat(SubSeq(s, 1, Len(s) - 1)) + DigitValue(s[Len(s)])

\* text is minutes ":" seconds for this number of seconds: the minutes in
\* two digits or more (no zero in front of more than two), the seconds in
\* exactly two, from 00 to 59
ShowsSeconds(text, seconds) ==
    LET mm == Before(text, ":")
        ss == After(text, ":")
    IN /\ Len(text) = Len(mm) + 1 + Len(ss)
       /\ IsDigits(mm) /\ IsDigits(ss)
       /\ Len(ss) = 2
       /\ ParseNat(ss) \in 0..59
       /\ Len(mm) >= 2
       /\ Len(mm) > 2 => mm[1] # "0"
       /\ ParseNat(mm) * 60 + ParseNat(ss) = seconds

\* C17: the duration shown for a clip of s whole seconds is floor(s / 60)
\* minutes and s mod 60 seconds, each padded with zeros to two digits at
\* least, the seconds always from 00 to 59.
C17_DurationFormat ==
    [][\A r \in 1..DurationRuns :
          onLoaded(r, 1) =>
              /\ ShowsSeconds(sounds'[1].duration, server[1].secs)
              /\ sounds'[1].duration =
                     padStart(toString(server[1].secs \div 60), 2, "0")
                     \o <<":">> \o
                     padStart(toString(server[1].secs % 60), 2, "0")]_vars

\* C17, its case: a clip of 100 minutes and 5 seconds is shown as 100:05.
C17_HundredMinutes ==
    /\ server[1].secs = 6005
    /\ sounds # <<>>
    /\ sounds[1].duration = <<"1", "0", "0", ":", "0", "5">>

(***************************************************************************)
(* The list area: what it renders.                                         *)
(***************************************************************************)
\* "Loading sounds..."
LoadingShown == isLoading \/ isFetchingData

\* "Error loading sounds"
ErrorShown == ~LoadingShown /\ isError

\* C18 (as stated): whenever the sounds query has failed, the list area
\* shows the error state and not the loading state, the failure of the
\* first fetch included.
C18_FailureShowsError == [](isError => (ErrorShown /\ ~LoadingShown))

\* C18, a state of the divergence: the first fetch has failed and the list
\* area shows the loading state.
C18_LoadingAfterFailure ==
    /\ isError
    /\ soundsData = NoData
    /\ sounds = <<>>
    /\ LoadingShown
    /\ ~ErrorShown

(***************************************************************************)
(* OverlapSpec: playback by a subscribed user, with the audio element of   *)
(* an earlier togglePlaySound call still awaiting its callbacks when the   *)
(* next sound is started.                                                  *)
(***************************************************************************)
\* OverlapSpec: loadAudioDurations runs under way at the same time
OverlapRuns == 1
\* OverlapSpec: audio elements whose callbacks may still run
OverlapAudios == 2

OverlapInit ==
    /\ server = SmallCatalogue
    /\ isAdmin = FALSE
    /\ isSubscribed = TRUE
    /\ ListInit /\ NetInit /\ NoForm /\ NoShare /\ NoSideBar /\ ObsInit

OverlapNext ==
    \/ QuerySuccess(MatchResponse(searchTerm))
          /\ Cardinality(DOMAIN runs') <= OverlapRuns
    \/ \E r \in 1..OverlapRuns, k \in 1..Len(SmallCatalogue) : onLoaded(r, k)
    \/ \E id \in SoundIds :
          togglePlaySound(id) /\ Cardinality(DOMAIN audios') <= OverlapAudios
    \/ \E a \in 1..OverlapAudios : PlayStarted(a)
    \/ \E a \in 1..OverlapAudios : playCatch(a)
    \/ \E a \in 1..OverlapAudios : onended(a)

OverlapSpec == OverlapInit /\ [][OverlapNext]_vars

\* the audio elements that are playing
Playing == {a \in DOMAIN audios : audios[a].state = "playing"}

\* C19 (as stated): at most one audio element started by the sound list is
\* playing at any time.
C19_OnePlaying == [](Cardinality(Playing) <= 1)

\* C19, a state of the divergence: two audio elements are playing, and
\* audioRef refers to one of them only.
C19_TwoPlaying ==
    /\ Cardinality(Playing) = 2
    /\ audioRef \in Playing

\* the selected flag of every sound of the list
SelectedFlags(soundList) ==
    {<<soundList[k].id, soundList[k].selected>> : k \in DOMAIN soundList}

\* a step that is the completion of a batch of loadAudioDurations
BatchCompletes ==
    /\ \E r \in DOMAIN runs, k \in 1..Len(SmallCatalogue) :
          onLoaded(r, k) \/ onError(r, k) \/ onTimeout(r, k)
    /\ \E r \in DOMAIN runs :
          r \notin DOMAIN runs' \/ runs'[r].i # runs[r].i

\* C20 (as stated): the completion of a batch, onended and the catch of
\* play() leave the selected flag of every sound as it was before the
\* callback ran.
C20_CallbacksKeepSelection ==
    [][(\/ BatchCompletes
        \/ \E a \in DOMAIN audios : onended(a) \/ playCatch(a))
          => SelectedFlags(sounds') = SelectedFlags(sounds)]_vars

(***************************************************************************)
(* Playback bookkeeping.                                                   *)
(***************************************************************************)
\* the ids of the sounds flagged as playing
FlaggedPlaying(soundList) ==
    {soundList[k].id : k \in {j \in DOMAIN soundList : soundList[j].isPlaying}}

\* C21 (as stated): currentlyPlayingId is the id of the sound whose
\* isPlaying flag is true, and it is null and audioRef is empty exactly when
\* no sound is flagged as playing.
C21_BookkeepingConsistent ==
    [](/\ currentlyPlayingId # Null => FlaggedPlaying(sounds) = {currentlyPlayingId}
       /\ FlaggedPlaying(sounds) = {} <=> (currentlyPlayingId = Null /\ audioRef = Null))

\* C21, a state of the divergence: the list shown has no sound flagged as
\* playing while currentlyPlayingId names a sound and audioRef holds its
\* audio element, which is playing.
C21_PlayingUnflagged ==
    /\ ListShown
    /\ FlaggedPlaying(sounds) = {}
    /\ currentlyPlayingId # Null
    /\ audioRef \in DOMAIN audios
    /\ audios[audioRef].state = "playing"

\* C22: at most one sound of the list is flagged as playing, whatever
\* play, stop, select, search, playback end, playback failure, response
\* and batch completion events happened; the same holds of the list that
\* is rendered.
C22_OneFlaggedPlaying ==
    [](/\ Cardinality(FlaggedPlaying(sounds)) <= 1
       /\ Cardinality(FlaggedPlaying(filteredSounds)) <= 1
       /\ Cardinality({k \in DOMAIN sounds : sounds[k].isPlaying}) <= 1)

\* C22, its case: the second sound was started while the first was flagged
\* as playing, and the second is the only one flagged.
C22_SecondReplacesFirst ==
    /\ FlaggedPlaying(sounds) = {2}
    /\ currentlyPlayingId = 2
    /\ \E a \in DOMAIN audios :
          /\ audios[a].id = 2
          /\ FlaggedPlaying(audios[a].sounds) = {1}

(***************************************************************************)
(* ToggleSpec: selection and playback by a subscribed user, admin or not,  *)
(* over a backend with two sounds.                                         *)
(***************************************************************************)
\* ToggleSpec: loadAudioDurations runs under way at the same time
ToggleRuns == 1
\* ToggleSpec: audio elements whose callbacks may still run
ToggleAudios == 1

ToggleInit ==
    /\ server = SmallCatalogue
    /\ isAdmin \in BOOLEAN
    /\ isSubscribed = TRUE
    /\ ListInit /\ NetInit /\ NoForm /\ NoShare /\ NoSideBar /\ ObsInit

ToggleNext ==
    \/ QuerySuccess(MatchResponse(searchTerm))
          /\ Cardinality(DOMAIN runs') <= ToggleRuns
    \/ \E r \in 1..ToggleRuns, k \in 1..Len(SmallCatalogue) : onLoaded(r, k)
    \/ \E id \in SoundIds : toggleSelect(id)
    \/ \E id \in SoundIds :
          togglePlaySound(id) /\ Cardinality(DOMAIN audios') <= ToggleAudios
    \/ \E a \in 1..ToggleAudios : PlayStarted(a)
    \/ \E a \in 1..ToggleAudios : playCatch(a)
    \/ \E a \in 1..ToggleAudios : onended(a)

ToggleSpec == ToggleInit /\ [][ToggleNext]_vars

\* C23: a user who is not an admin has at most one sound selected in every
\* state: toggleSelect of a sound that is not selected leaves it the only
\* selected one, toggleSelect of the selected sound leaves none.  For an
\* admin toggleSelect flips the flag of the targeted sound and changes the
\* selected flag of no other sound.
C23_SingleOrMultiple ==
    /\ [](~isAdmin => Cardinality({k \in DOMAIN sounds : sounds[k].selected}) <= 1)
    /\ [][\A id \in SoundIds :
             (toggleSelect(id) /\ ~isAdmin /\ Has(sounds, id)) =>
                 SelectedIds(sounds') =
                     IF Find(sounds, id).selected THEN <<>> ELSE <<id>>]_vars
    /\ [][\A id \in SoundIds :
             (toggleSelect(id) /\ isAdmin) =>
                 /\ DOMAIN sounds' = DOMAIN sounds
                 /\ \A k \in DOMAIN sounds :
                       /\ sounds'[k].id = sounds[k].id
                       /\ sounds'[k].selected =
                              IF sounds[k].id = id THEN ~sounds[k].selected
                              ELSE sounds[k].selected]_vars

\* C23, its case: a user who is not an admin had the first sound selected
\* when playback was started and has selected the second sound since: the
\* second is the only one selected.
C23_SelectionMoved ==
    /\ ~isAdmin
    /\ SelectedIds(sounds) = <<2>>
    /\ \E a \in DOMAIN audios : SelectedIds(audios[a].sounds) = <<1>>

\* C24: togglePlaySound of a sound that is flagged as playing pauses the
\* audio element audioRef holds, clears audioRef, leaves no sound flagged
\* as playing, sets currentlyPlayingId to null, creates no audio element
\* and changes no selected flag.
C24_ToggleStops ==
    [][\A id \in SoundIds :
          (togglePlaySound(id) /\ Has(sounds, id) /\ Find(sounds, id).isPlaying) =>
              /\ audioRef # Null =>
                    \/ audioRef \notin DOMAIN audios'
                    \/ audios'[audioRef].state = "aborted"
              /\ audioRef' = Null
              /\ currentlyPlayingId' = Null
              /\ FlaggedPlaying(sounds') = {}
              /\ FlaggedPlaying(filteredSounds') = {}
              /\ DOMAIN audios' \subseteq DOMAIN audios
              /\ \A a \in DOMAIN audios' : audios'[a].id = audios[a].id
              /\ IdsOf(sounds') = IdsOf(sounds)
              /\ SelectedFlags(sounds') = SelectedFlags(sounds)]_vars

\* C24, its case: an admin with both sounds selected has stopped a sound
\* whose playback was still starting: its audio element is paused (the
\* play() promise is rejected, the catch not yet run), nothing is flagged
\* as playing, audioRef is empty and both sounds are still selected.
C24_StoppedKeepsSelection ==
    /\ isAdmin
    /\ SelectedIds(sounds) = <<1, 2>>
    /\ FlaggedPlaying(sounds) = {}
    /\ currentlyPlayingId = Null
    /\ audioRef = Null
    /\ \E a \in DOMAIN audios :
          /\ audios[a].state = "aborted"
          /\ SelectedIds(audios[a].sounds) = <<1, 2>>

(***************************************************************************)
(* Pages.  The component asks for page currentPage with limit 1000; the    *)
(* model's backend holds six sounds and the limit is scaled down with it,  *)
(* so that a list has several pages.                                       *)
(***************************************************************************)
\* PageSpec: the limit of a request (sounds per page)
PageLimit == 2
\* PageSpec: loadAudioDurations runs under way at the same time
PageRuns == 1

\* the number of pages of n sounds
PageCount(n) == (n + PageLimit - 1) \div PageLimit

\* What GET /sound answers for a search term and a page: that page of the
\* matching sounds (none beyond the last page) and the number of pages.
PageResponse(term, page) ==
    LET matches == ServerMatches(term)
        first == (page - 1) * PageLimit + 1
        last == Min(page * PageLimit, Len(matches))
    IN [data |-> IF first > Len(matches) THEN <<>>
                 ELSE SubSeq(matches, first, last),
        meta |-> [totalPage |-> PageCount(Len(matches))]]

\* onPageChange of Pagination, which is rendered when totalPages > 1 and
\* offers the pages 1..totalPages
handlePageChange(page) ==
    /\ totalPages > 1
    /\ page \in 1..totalPages
    /\ page # currentPage
    /\ currentPage' = page
    \* the query key changes: useSounds starts the request of the new key
    /\ soundsData' = NoData
    /\ qStatus' = "loading"
    /\ out' = <<>>
    /\ UNCHANGED <<sounds, filteredSounds, searchTerm, isLoading,
                   currentlyPlayingId, selectedSounds, totalPages, audioRef>>
    /\ UNCHANGED <<sideVars, userVars, shareVars, asyncVars, netVars, formVars>>

PageInit ==
    /\ server = BigCatalogue
    /\ isAdmin = FALSE
    /\ isSubscribed = FALSE
    /\ ListInit /\ NetInit /\ NoForm /\ NoShare /\ NoSideBar /\ ObsInit

PageNext ==
    \/ QuerySuccess(PageResponse(searchTerm, currentPage))
          /\ Cardinality(DOMAIN runs') <= PageRuns
    \/ QueryError
    \/ \E term \in LoadTerms : handleSearch(term)
    \/ \E page \in 1..PageCount(Len(BigCatalogue)) : handlePageChange(page)
    \/ \E r \in 1..PageRuns, k \in 1..PageLimit : onLoaded(r, k)
    \/ \E r \in 1..PageRuns, k \in 1..PageLimit : onTimeout(r, k)

PageSpec == PageInit /\ [][PageNext]_vars

\* C25 (as stated): the requested page is an existing page: in every state
\* 1 <= currentPage <= totalPages.
C25_PageExists == [](1 <= currentPage /\ currentPage <= totalPages)

\* C25, a state of the divergence: the response for the current search
\* term and page is applied, it reports fewer pages than currentPage and
\* holds no sound, and the page buttons are not rendered.
C25_BeyondLastPage ==
    /\ qStatus = "success"
    /\ soundsData = <<PageResponse(searchTerm, currentPage)>>
    /\ currentPage > totalPages
    /\ sounds = <<>>
    /\ ~(totalPages > 1)


(***************************************************************************)
(* SideBar: the highlighted button, the two navigation buttons and the     *)
(* log-out button.  The parent component is the environment: it mounts the *)
(* side bar with or without onClose and re-renders it with another         *)
(* activeView.  The side bar is used next to the sound list, whose search  *)
(* box and query go on while the buttons are clicked.                      *)
(***************************************************************************)
\* the values the activeView prop takes; "undefined": the prop is not passed
Views == {"sounds", "friends", "undefined"}

TitleChange(title) == [fx |-> "onTitleChange", msg |-> <<title>>]
SoundListChange(flag) ==
    [fx |-> "onSoundListChange", msg |-> <<IF flag THEN "true" ELSE "false">>]
Close == [fx |-> "onClose", msg |-> <<>>]

\* if (onClose) onClose();
CloseIfProvided == IF onClose THEN <<Close>> ELSE <<>>

\* the parent renders the side bar with another activeView: the effect on
\* [activeView] runs in the same task
setActiveView(view) ==
    /\ view # activeView
    /\ activeView' = view
    /\ activeButton' = ButtonFor(view)
    /\ out' = <<>>
    /\ UNCHANGED <<onClose, userVars, shareVars, listVars, queryVars,
                   asyncVars, netVars, formVars>>

handleSoundButtonClick ==
    /\ activeButton' = 1
    /\ out' = <<TitleChange("Sound Library"), SoundListChange(TRUE)>>
                \o CloseIfProvided
    /\ UNCHANGED <<activeView, onClose, userVars, shareVars, listVars,
                   queryVars, asyncVars, netVars, formVars>>

handleFriendButtonClick ==
    /\ activeButton' = 2
    /\ out' = <<TitleChange("Friends"), SoundListChange(FALSE)>>
                \o CloseIfProvided
    /\ UNCHANGED <<activeView, onClose, userVars, shareVars, listVars,
                   queryVars, asyncVars, netVars, formVars>>

SideInit ==
    /\ server = SmallCatalogue
    /\ isAdmin = FALSE
    /\ isSubscribed = FALSE
    /\ \E view \in Views, close \in BOOLEAN : SideBarMount(view, close)
    /\ ListInit /\ NetInit /\ NoForm /\ NoShare /\ ObsInit

SideNext ==
    \/ \E view \in Views : setActiveView(view)
    \/ handleSoundButtonClick
    \/ handleFriendButtonClick
    \/ handleLogout
    \/ signOutResolves
    \/ signOutRejects
    \/ \E term \in LoadTerms : handleSearch(term)
    \/ QueryError

SideSpec == SideInit /\ [][SideNext]_vars

\* what a click has reported, read from the effects of the task
Reported(title) == out # <<>> /\ out[1] = TitleChange(title)
ClickReport(title, flag) ==
    <<[fx |-> "onTitleChange", msg |-> <<title>>],
      [fx |-> "onSoundListChange",
       msg |-> <<IF flag THEN "true" ELSE "false">>]>>
    \o (IF onClose THEN <<[fx |-> "onClose", msg |-> <<>>]>> ELSE <<>>)

\* C26: after every change of activeView, activeButton is 2 exactly when
\* activeView is "friends" and 1 otherwise; a click on Sounds reports the
\* title "Sound Library" and sound list true and sets activeButton 1, a
\* click on Friends reports "Friends" and false and sets activeButton 2, and
\* each click calls onClose once when it is provided and makes no other call.
C26_HighlightFollowsView ==
    [][ /\ activeView' # activeView =>
            /\ (activeButton' = 2 <=> activeView' = "friends")
            /\ (activeButton' = 1 <=> activeView' # "friends")
        /\ Reported("Sound Library")' =>
            /\ out' = ClickReport("Sound Library", TRUE)
            /\ activeButton' = 1
        /\ Reported("Friends")' =>
            /\ out' = ClickReport("Friends", FALSE)
            /\ activeButton' = 2
        /\ (out' # <<>> /\ out'[1].fx = "onTitleChange") =>
            \/ Reported("Sound Library")'
            \/ Reported("Friends")'
      ]_vars

\* Sounds was clicked in a side bar that has onClose, while no activeView
\* was passed
C26_ClickedAndClosed ==
    /\ activeView = "undefined"
    /\ onClose
    /\ activeButton = 1
    /\ out = <<TitleChange("Sound Library"), SoundListChange(TRUE), Close>>

=============================================================================
